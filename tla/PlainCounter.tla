---------------------------- MODULE PlainCounter ----------------------------
(***************************************************************************)
(* A shared integer that several threads change with a plain ++ or --.     *)
(* Neither obj->ref_count nor the accept loop's `count' is atomic, so a    *)
(* change is a load into a register and a store of the register's new      *)
(* value, with other threads' steps in between.  lost records that some    *)
(* store has overwritten a change made after its load.                     *)
(***************************************************************************)
EXTENDS Integers

VARIABLES val,      \* the integer in memory
          reg,      \* what each thread holds in its register
          lost      \* has an update been lost?

Load(t) == /\ reg' = [reg EXCEPT ![t] = val]
           /\ UNCHANGED <<val, lost>>

Overwrite(t, d) == /\ val' = reg[t] + d
                   /\ lost' = (lost \/ val # reg[t])

\* A store whose result the thread does not look at again.
Store(t, d) == /\ Overwrite(t, d)
               /\ reg' = [reg EXCEPT ![t] = 0]

\* A store whose result the thread still holds.
StoreAndKeep(t, d) == /\ Overwrite(t, d)
                      /\ reg' = [reg EXCEPT ![t] = @ + d]
=============================================================================
