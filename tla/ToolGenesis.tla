---------------------------- MODULE ToolGenesis ----------------------------
(* Tools that the agent writes: tools/genesis.py checks the body of a tool    *)
(* and registers it, eval/tool_eval.py promotes the file of one that passes   *)
(* its cases. Files and registry are kept by name, and names do not interact: *)
(* this is one name. Every await lets the other tasks of the process run.     *)
EXTENDS FiniteSets

CONSTANTS
  Authors,      \* tasks of the process
  Tools,        \* what a file may hold
  Safe,         \* those that pass ast_safety_scan,
  Typed,        \* mypy --strict,
  Loads,        \* an import,
  Works,        \* and min_pass of the cases
  NoTool

ASSUME GenesisAssumption ==
  /\ Safe \cup Typed \cup Loads \cup Works \subseteq Tools
  /\ NoTool \notin Tools

VARIABLES
  toolFile,     \* the file of the name in each directory
  live,         \* the registered tool
  tasksAt,      \* the call each task is in, and where
  origin,       \* how the file in the auto directory got there
  tidy          \* history: calls did not overlap, nor their directories mix

genesisVars == <<toolFile, live, tasksAt, origin, tidy>>

Dirs == {"quarantine", "auto"}
Ended == [pc |-> "none"]
TaskAt(a, x) == tasksAt' = [tasksAt EXCEPT ![a] = x]
Alone(a) == \A b \in Authors \ {a} : tasksAt[b] = Ended

(* A file that fails a check stays where it is (mutant).                      *)
UnlinkedLater(d) == toolFile

(* The roll-back.                                                             *)
Unlinked(d) == [toolFile EXCEPT ![d] = NoTool]

-----------------------------------------------------------------------------

(* genesis(): name, permission and body are checked before the file is        *)
(* written over what is there.                                                *)
Genesis(a, t, d) ==
  /\ tasksAt[a] = Ended /\ t \in Safe
  /\ toolFile' = [toolFile EXCEPT ![d] = t]
  /\ TaskAt(a, [pc |-> "mypy", dir |-> d])
  /\ origin' = IF d = "auto" THEN "genesis" ELSE origin
  /\ tidy' = (tidy /\ Alone(a) /\ (d = "auto" => toolFile["quarantine"] = NoTool))
  /\ UNCHANGED live

(* A subprocess reads what the file holds by now.                             *)
Checks(a, stage, good, next) ==
  /\ tasksAt[a].pc = stage
  /\ TaskAt(a, [tasksAt[a] EXCEPT
                  !.pc = IF toolFile[tasksAt[a].dir] \in good THEN next ELSE "unlink"])
  /\ UNCHANGED <<toolFile, live, origin, tidy>>

MypyCheck(a) == Checks(a, "mypy", Typed, "dry_run")
SandboxDryRun(a) == Checks(a, "dry_run", Loads, "import")

RollBack(a) ==
  /\ tasksAt[a].pc = "unlink"
  /\ toolFile' = Unlinked(tasksAt[a].dir)
  /\ TaskAt(a, Ended)
  /\ UNCHANGED <<live, origin, tidy>>

(* The import executes register(), and the last registration wins.            *)
LiveImport(a) ==
  LET t == toolFile[tasksAt[a].dir] IN
  /\ tasksAt[a].pc = "import"
  /\ IF t \in Loads
     THEN live' = t /\ UNCHANGED toolFile
     ELSE toolFile' = Unlinked(tasksAt[a].dir) /\ UNCHANGED live
  /\ TaskAt(a, Ended)
  /\ UNCHANGED <<origin, tidy>>

(* promote_tool() takes the registered tool and awaits its cases.             *)
Promote(a) ==
  /\ tasksAt[a] = Ended /\ live # NoTool
  /\ TaskAt(a, [pc |-> "cases", tool |-> live])
  /\ tidy' = (tidy /\ Alone(a))
  /\ UNCHANGED <<toolFile, live, origin>>

(* Behind the last case the file of the name is moved, if there is one.       *)
EvalDone(a) ==
  /\ tasksAt[a].pc = "cases"
  /\ IF tasksAt[a].tool \in Works /\ toolFile["quarantine"] # NoTool
     THEN /\ toolFile' = [quarantine |-> NoTool, auto |-> toolFile["quarantine"]]
          /\ origin' = "promotion"
     ELSE UNCHANGED <<toolFile, origin>>
  /\ TaskAt(a, Ended)
  /\ UNCHANGED <<live, tidy>>

DeleteAutoTool ==
  /\ toolFile["auto"] # NoTool
  /\ toolFile' = Unlinked("auto")
  /\ UNCHANGED <<live, tasksAt, origin, tidy>>

(* The process ends, and nothing imports the files of the next one.           *)
ProcessRestarts ==
  /\ live' = NoTool
  /\ tasksAt' = [a \in Authors |-> Ended]
  /\ UNCHANGED <<toolFile, origin, tidy>>

GenesisInit ==
  /\ toolFile = [d \in Dirs |-> NoTool] /\ live = NoTool
  /\ tasksAt = [a \in Authors |-> Ended]
  /\ origin = "nobody" /\ tidy = TRUE

GenesisNext ==
  \/ \E a \in Authors :
       \/ \E t \in Tools, d \in Dirs : Genesis(a, t, d)
       \/ MypyCheck(a) \/ SandboxDryRun(a) \/ RollBack(a) \/ LiveImport(a)
       \/ Promote(a) \/ EvalDone(a)
  \/ DeleteAutoTool \/ ProcessRestarts

GenesisSpec == GenesisInit /\ [][GenesisNext]_genesisVars

-----------------------------------------------------------------------------

GenesisTypes ==
  /\ toolFile \in [Dirs -> Tools \cup {NoTool}]
  /\ live \in Tools \cup {NoTool}
  /\ origin \in {"nobody", "genesis", "promotion"}
  /\ tidy \in BOOLEAN

(* "Outclass: no auto-tool reaches production without >=3 passing eval cases" *)
(* (tool_eval.py:3): the file of a promotion is one that passed its cases,    *)
(* although the cases run the registered tool and the file is found by name:  *)
(* as long as calls do not overlap and the two directories are not mixed.     *)
PromotedIsEvaluated ==
  tidy /\ origin = "promotion" /\ toolFile["auto"] # NoTool
    => toolFile["auto"] \in Safe \cap Typed \cap Loads \cap Works
=============================================================================
