----------------------------- MODULE PackMarket -----------------------------
(* marketplace/ over skills/pack.py and redteam/pack.py: packs are files with *)
(* a manifest that names a digest of their contents, or leaves them out, and, *)
(* when signed, a signature of the manifest; the catalog lists where a pack   *)
(* is and whose key signed it; and an install looks the pack up, verifies the *)
(* file, and opens it again to read what it puts in place.                    *)
EXTENDS Integers, Sequences

CONSTANTS
  PackFiles,        \* places a pack is written to, one name of the catalog each
  Keys,
  NoKey,
  MaxEdits,         \* bound of the packs written
  MaxListings       \* bound of the catalog

ASSUME PackAssumption == MaxEdits \in Nat /\ MaxListings \in Nat

VARIABLES
  packs,            \* of a place, the pack there, of contents 0 if none
  edits,            \* packs written so far; each has contents of its own
  catalog,          \* the rows, in the order they were published
  install,          \* the install that is under way
  inPlace           \* of a name, what the last install put in place

packVars == <<packs, edits, catalog, install, inPlace>>

Unlisted == 0
NoPack == [contents |-> 0, digest |-> Unlisted, signer |-> NoKey]
NoInstall == [stage |-> "none", row |-> 0, key |-> NoKey, red |-> FALSE, seen |-> NoPack]

-----------------------------------------------------------------------------

(* pack_skill and RedPackBuilder.save: contents, their digest, a signature of *)
(* it if there is a key.                                                      *)
Pack(f, k) ==
  /\ edits < MaxEdits /\ edits' = edits + 1
  /\ packs' = [packs EXCEPT ![f] = [contents |-> edits', digest |-> edits', signer |-> k]]
  /\ UNCHANGED <<catalog, install, inPlace>>

(* Another program writes a skillpack whose manifest.json does not name its   *)
(* SKILL.md.                                                                  *)
PackUnlisted(f, k) ==
  /\ edits < MaxEdits /\ edits' = edits + 1
  /\ packs' = [packs EXCEPT ![f] = [contents |-> edits', digest |-> Unlisted, signer |-> k]]
  /\ UNCHANGED <<catalog, install, inPlace>>

(* sign_pack: a signature, in the place of the one there was.                 *)
Sign(f, k) ==
  /\ packs[f].contents # 0 /\ k # NoKey
  /\ packs' = [packs EXCEPT ![f].signer = k]
  /\ UNCHANGED <<edits, catalog, install, inPlace>>

(* The file is damaged: contents the digest is not of.                        *)
Damaged(f) ==
  /\ packs[f].contents # 0 /\ edits < MaxEdits /\ edits' = edits + 1
  /\ packs' = [packs EXCEPT ![f].contents = edits']
  /\ UNCHANGED <<catalog, install, inPlace>>

(* MarketplaceClient.publish: another row, even for a name that has one.      *)
PublishPack(f, k) ==
  /\ packs[f].contents # 0 /\ Len(catalog) < MaxListings
  /\ \E red \in BOOLEAN :
       catalog' = Append(catalog, [file |-> f, key |-> k, red |-> red, installed |-> FALSE])
  /\ UNCHANGED <<packs, edits, install, inPlace>>

(* get_by_name: the last row of the name. The caller's key comes before the   *)
(* row's.                                                                     *)
LastOf(f) ==
  CHOOSE i \in DOMAIN catalog :
    catalog[i].file = f /\ \A j \in DOMAIN catalog : catalog[j].file = f => j <= i

Lookup(f, k) ==
  /\ install.stage = "none"
  /\ \E i \in DOMAIN catalog : catalog[i].file = f
  /\ LET row == catalog[LastOf(f)] IN
     install' = [NoInstall EXCEPT !.stage = "found", !.row = LastOf(f), !.red = row.red,
                                  !.key = IF k # NoKey THEN k ELSE row.key]
  /\ UNCHANGED <<packs, edits, catalog, inPlace>>

InstallFile == packs[catalog[install.row].file]
HashHolds(pack) == pack.contents = pack.digest
SignatureHolds(pack, k) == k = NoKey \/ pack.signer = k

(* verify_pack looks at the signature, which is of the digest; load_redpack   *)
(* at the hash too, in the bytes it has read at once.                         *)
Verified ==
  /\ install.stage = "found"
  /\ IF SignatureHolds(InstallFile, install.key) /\ (install.red => HashHolds(InstallFile))
     THEN install' = [install EXCEPT !.stage = "verified", !.seen = InstallFile]
     ELSE install' = NoInstall
  /\ UNCHANGED <<packs, edits, catalog, inPlace>>

(* Mutant of Extractable: the hashes are left to the signature.               *)
ExtractableUnhashed(pack) == TRUE

(* unpack_skill opens the file again and, before it writes, checks the hashes *)
(* of the files its manifest names; of a red pack the file is copied as it is *)
(* now.                                                                       *)
Extractable(pack) == install.red \/ pack.digest = Unlisted \/ HashHolds(pack)

Extracted ==
  /\ install.stage = "verified"
  /\ IF Extractable(InstallFile)
     THEN /\ inPlace' = [inPlace EXCEPT ![catalog[install.row].file] =
                           [pack |-> InstallFile, seen |-> install.seen,
                            key |-> install.key, red |-> install.red]]
          /\ install' = [install EXCEPT !.stage = "extracted"]
     ELSE install' = NoInstall /\ UNCHANGED inPlace
  /\ UNCHANGED <<packs, edits, catalog>>

(* mark_installed                                                             *)
Marked ==
  /\ install.stage = "extracted"
  /\ catalog' = [catalog EXCEPT ![install.row].installed = TRUE]
  /\ install' = NoInstall
  /\ UNCHANGED <<packs, edits, inPlace>>

(* The process ends.                                                          *)
InstallStops ==
  /\ install.stage # "none" /\ install' = NoInstall
  /\ UNCHANGED <<packs, edits, catalog, inPlace>>

PackInit ==
  /\ packs = [f \in PackFiles |-> NoPack] /\ edits = 0
  /\ catalog = <<>> /\ install = NoInstall
  /\ inPlace = [f \in PackFiles |-> [pack |-> NoPack, seen |-> NoPack, key |-> NoKey, red |-> FALSE]]

PackNext ==
  \/ \E f \in PackFiles, k \in Keys \cup {NoKey} :
       Pack(f, k) \/ PackUnlisted(f, k) \/ Sign(f, k) \/ PublishPack(f, k) \/ Lookup(f, k)
  \/ \E f \in PackFiles : Damaged(f)
  \/ Verified \/ Extracted \/ Marked \/ InstallStops

PackSpec == PackInit /\ [][PackNext]_packVars

-----------------------------------------------------------------------------

(* What an install has put in place was verified: the signature with the key  *)
(* of the caller or of the row, and a red pack's hash. A skill that is in     *)
(* place fits the manifest it was read with, even if the file was written     *)
(* anew since it was verified, unless that manifest does not name it: then    *)
(* neither the hashes nor the signature say anything of it. A row marked as   *)
(* installed has something in place.                                          *)
InstalledIsVerified ==
  /\ \A f \in PackFiles :
       LET there == inPlace[f] IN
       there.pack.contents # 0 =>
         /\ SignatureHolds(there.seen, there.key)
         /\ there.red => HashHolds(there.seen)
         /\ ~there.red => there.pack.digest = Unlisted \/ HashHolds(there.pack)
  /\ \A i \in DOMAIN catalog :
       catalog[i].installed => inPlace[catalog[i].file].pack.contents # 0
=============================================================================
