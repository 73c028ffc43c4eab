------------------------------ MODULE MCStores ------------------------------
(* The stores beside the agent share no state with each other: a behaviour is *)
(* one of the first to the last, as its initial state says.                   *)
EXTENDS Identities, VaultStore, AuditChain, Migrations, MemoryTree, VaultMirror,
        ContextView, CuratorQueue, ToolGenesis, TLC

CONSTANTS t1, t2, t3, p1, p2, textp, textl, textq, n1, n2, n3

VARIABLE part

MCProcOf == t1 :> p1 @@ t2 :> p1 @@ t3 :> p2
MCTopic == textp :> "a" @@ textl :> "a" @@ textq :> "b"
MCEdges == {<<n1, n2>>, <<n2, n3>>}
MCEdgesOf == textp :> {<<n1, n2>>} @@ textl :> MCEdges @@ textq :> {}
(* Every store keeps its types.                                               *)
MCTypes ==
  /\ IdentityTypes /\ VaultTypes /\ AuditTypes /\ MigrationTypes /\ MemoryTypes
  /\ MirrorTypes /\ ViewTypes /\ CuratorTypes /\ GenesisTypes

MCInit ==
  /\ part \in 1..9
  /\ IdentityInit /\ VaultInit /\ AuditInit /\ MigrationInit /\ MemoryInit
  /\ MirrorInit /\ ViewInit /\ CuratorInit /\ GenesisInit

Others(p) ==
  /\ part = p /\ UNCHANGED part
  /\ p # 1 => UNCHANGED identityVars
  /\ p # 2 => UNCHANGED vaultVars
  /\ p # 3 => UNCHANGED auditVars
  /\ p # 4 => UNCHANGED migrationVars
  /\ p # 5 => UNCHANGED memoryVars
  /\ p # 6 => UNCHANGED mirrorVars
  /\ p # 7 => UNCHANGED viewVars
  /\ p # 8 => UNCHANGED curatorVars
  /\ p # 9 => UNCHANGED genesisVars

MCNext ==
  \/ Others(1) /\ IdentityNext
  \/ Others(2) /\ VaultNext
  \/ Others(3) /\ AuditNext
  \/ Others(4) /\ MigrationNext
  \/ Others(5) /\ MemoryNext
  \/ Others(6) /\ MirrorNext
  \/ Others(7) /\ ViewNext
  \/ Others(8) /\ CuratorNext
  \/ Others(9) /\ GenesisNext

storeVars == <<part, identityVars, vaultVars, auditVars, migrationVars, memoryVars,
               mirrorVars, viewVars, curatorVars, genesisVars>>
MCSpec == MCInit /\ [][MCNext]_storeVars
=============================================================================
