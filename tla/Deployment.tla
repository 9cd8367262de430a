----------------------------- MODULE Deployment -----------------------------
(***************************************************************************)
(* The procedures an operator follows around the store: replacing the      *)
(* wrapping key (README.md, "Rotation"), moving to a key service, rotating *)
(* a key inside the service, and changing the schema.  Each has the same   *)
(* shape: restart the replicas one by one with a configuration that knows  *)
(* both keys, run "sealbox rotate" or "sealbox reindex" while they serve,  *)
(* and retire the old key when the command has exited with status 0.       *)
(* The store's own steps are those of module Store.                        *)
(***************************************************************************)
EXTENDS Store

CONSTANTS
    OldEnv, BothEnv, NewEnv,  \* wrappers before, during and after the change
    OldSchema, NewSchema,     \* indexed fields before and after the change
    RotatesEngine,            \* the transit key gets a new version as well
    Rounds,                   \* bound: how often the engine's key is rotated
    Drain,                    \* the operator lets requests in flight finish first
    Settle                    \* ... and the commands of one round before the next

ASSUME DeploymentAssumption ==
    /\ {OldEnv, BothEnv, NewEnv} \subseteq Env
    /\ {OldSchema, NewSchema} \subseteq [Collections -> SUBSET Fields]
    /\ RotatesEngine \in BOOLEAN /\ Drain \in BOOLEAN /\ Settle \in BOOLEAN
    /\ Rounds \in Nat \ {0}
    /\ \A p \in Servers : StartEnv[p] = OldEnv /\ StartSchema[p] = OldSchema
    /\ \A p \in Procs \ Servers : StartEnv[p] = BothEnv /\ StartSchema[p] = NewSchema

\* README.md, "Rotation": the new key comes first in a list that still has the
\* old ones, and stays first when they are dropped.
ASSUME ProcedureAssumption ==
    /\ \A e \in {OldEnv, BothEnv, NewEnv} : e.current \in e.all
    /\ OldEnv.all \subseteq BothEnv.all
    /\ NewEnv.current = BothEnv.current
    /\ Servers # {}
    /\ Servers \cap Rotators = {}
    /\ Servers \cap Reindexers = {}
    /\ Rotators \cap Reindexers = {}

VARIABLES
    phase,    \* "old", "roll", "drop" or "done"
    rebuilt   \* collections for which "sealbox reindex" has exited with status 0

dvars == <<vars, phase, rebuilt>>

Phases == {"old", "roll", "drop", "done"}

DInit == Init /\ phase = "old" /\ rebuilt = {}

\* A change is done: in an engine the next rotation may follow.
NextRound ==
    /\ phase = "done" /\ RotatesEngine /\ engine.version <= Rounds
    /\ Settle => \A p \in Rotators : pc[p] = "idle"

\* The new key or key version and the new schema exist.
BeginChange ==
    /\ phase = "old" \/ NextRound
    /\ phase' = "roll"
    /\ engine' = IF RotatesEngine THEN [engine EXCEPT !.version = @ + 1] ELSE engine
    /\ UNCHANGED <<tables, stdout, lock, revealed, pc, tx, job, env, schema, rebuilt>>

\* A replica stops, whatever it was doing, and starts with configuration e and
\* schema s.  It would refuse to start if loadIndexKey could not open the
\* blind-index key; NothingLost says that it always can.
Restart(p, e, s) ==
    /\ <<env[p], schema[p]>> # <<e, s>>
    /\ Leave(p)
    /\ env' = [env EXCEPT ![p] = e]
    /\ schema' = [schema EXCEPT ![p] = s]
    /\ UNCHANGED <<tables, stdout, revealed, engine, phase, rebuilt>>

RollForward(p) == phase = "roll" /\ Restart(p, BothEnv, NewSchema)
DropOldKey(p)  == phase = "drop" /\ Restart(p, NewEnv, NewSchema)

AllOn(e) == \A p \in Servers : env[p] = e /\ schema[p] = NewSchema

\* A request in flight that sealed something before the engine's key moved.
InFlight(p) == \E i \in Ids : /\ tx[p].rows[i] # None
                              /\ tx[p].rows[i].key_id \in Transit
                              /\ tx[p].rows[i].wrapped < engine.version

\* The commands run when every replica has been restarted, never before.
MayRun == /\ phase = "roll" /\ AllOn(BothEnv)
          /\ Drain => \A p \in Servers : ~InFlight(p)

Commands(p) ==
    /\ pc[p] = "idle" => MayRun
    /\ \/ p \in Rotators /\ Rotate(p)
       \/ p \in Reindexers /\ Reindex(p)

\* "sealbox rotate" exits with status 0 only if it skipped nothing; that is
\* what lets the operator go on.
Exited(p, l) == pc[p] = l /\ job[p].skipped = {} /\ pc'[p] = "idle"

Observe ==
    /\ phase' = IF phase = "roll" /\ \E p \in Rotators : Exited(p, "rotated")
                THEN "drop" ELSE phase
    /\ rebuilt' = rebuilt \cup
         {c \in Collections : \E p \in Reindexers :
             Exited(p, "reindexed") /\ job[p].collection \in {c, None}}

\* The old key is destroyed, or the engine refuses versions before the last.
Retire ==
    /\ phase = "drop" /\ AllOn(NewEnv)
    /\ phase' = "done"
    /\ engine' = IF RotatesEngine THEN [engine EXCEPT !.min = engine.version] ELSE engine
    /\ UNCHANGED <<tables, stdout, lock, revealed, pc, tx, job, env, schema, rebuilt>>

Operate ==
    \/ BeginChange
    \/ \E p \in Servers : RollForward(p) \/ DropOldKey(p)
    \/ Retire

DNext ==
    \/ Operate
    \/ /\ \/ \E p \in Servers : Serve(p)
          \/ \E p \in Rotators \cup Reindexers : Commands(p)
       /\ Observe
    \/ (\E p \in Procs : Abort(p)) /\ UNCHANGED <<phase, rebuilt>>

DSpec == DInit /\ [][DNext]_dvars

-----------------------------------------------------------------------------
\* Following the procedure loses no object: every replica that has been
\* restarted opens every live row and the blind-index key, during the
\* rotation and after the old key is gone.
NothingLost ==
    \A p \in Servers : phase = "old" \/ env[p] \in {BothEnv, NewEnv} =>
        /\ Opens(p, keyrow)
        /\ \A i \in Ids : Live(i) => Opens(p, SealedOf(i))

\* What a replica can open stays open to it, restarted or not, through every
\* step of the procedure: nothing is re-wrapped under a key that some replica
\* does not have yet (main.go loadWrappers), and no replica is started without
\* a key that a live row or the blind-index key still needs.
NeverGoesDark ==
    [][\A p \in Servers :
         /\ Opens(p, keyrow) => Opens(p, keyrow)'
         /\ \A i \in Ids :
              Live(i) /\ Opens(p, SealedOf(i)) => (Live(i) => Opens(p, SealedOf(i)))']_dvars

\* Once a rotation has exited with status 0 no live row is left under the old
\* key: the check README.md gives after step 3 finds one fingerprint.
CleanMeansCurrent ==
    phase \in {"drop", "done"} =>
        /\ keyrow.key_id = BothEnv.current
        /\ \A i \in Ids : Live(i) => rows[i].key_id = BothEnv.current

\* Once a reindex has exited with status 0 every live object of the collections
\* it was run for is indexed as the new schema asks.
RebuiltMeansIndexed ==
    \A i \in Ids : Live(i) /\ rows[i].collection \in rebuilt =>
        LET c == rows[i].collection IN
        {e.field : e \in EntriesOf(c, i)} = NewSchema[c] \cap rows[i].has
=============================================================================
