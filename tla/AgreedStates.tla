---------------------------- MODULE AgreedStates ----------------------------
(***************************************************************************)
(* What the update protocol of a ledger channel promises, without          *)
(* messages, locks or phases: every participant has a current state, signs *)
(* only successors of it, and moves on only to a state that everyone has   *)
(* signed.  A signature can never be taken back.  Any number of            *)
(* participants.                                                           *)
(***************************************************************************)
EXTENDS Integers

CONSTANTS
    Parts,      \* the participants
    States,     \* the states, records with at least version and isFinal
    s0,         \* the state everyone signed when the channel was opened
    Value(_)    \* the assets a state distributes

\* What the theorems assume of the states.
StatesAssumption ==
    /\ \A s \in States : s.version \in Nat /\ s.isFinal \in BOOLEAN
    /\ s0 \in States

VARIABLES
    cur,        \* cur[p]: the current state of p
    signed      \* signed[p]: every state p ever gave its signature for

vars == <<cur, signed>>

Init ==
    /\ cur = [p \in Parts |-> s0]
    /\ signed = [p \in Parts |-> {s0}]

\* t may follow s: machine.validTransition without the app's rules.
Follows(t, s) ==
    /\ t.version = s.version + 1
    /\ ~s.isFinal
    /\ Value(t) = Value(s)

Sign(p, s) ==
    /\ Follows(s, cur[p])
    /\ signed' = [signed EXCEPT ![p] = @ \cup {s}]
    /\ UNCHANGED cur

Enable(p, s) ==
    /\ Follows(s, cur[p])
    /\ \A q \in Parts : s \in signed[q]
    /\ cur' = [cur EXCEPT ![p] = s]
    /\ UNCHANGED signed

Next == \E p \in Parts, s \in States : Sign(p, s) \/ Enable(p, s)

Spec == Init /\ [][Next]_vars

-----------------------------------------------------------------------------
(* Properties *)

TypeOK ==
    /\ cur \in [Parts -> States]
    /\ signed \in [Parts -> SUBSET States]

\* Nobody ever signed further than one version past its current state, and
\* nothing past a final one; the current state of each is signed by all.
Justified ==
    \A p \in Parts :
        /\ \A s \in signed[p] :
              /\ s.version <= cur[p].version + 1
              /\ s.version = cur[p].version + 1 => ~cur[p].isFinal
              /\ Value(s) = Value(s0)
        /\ \A q \in Parts : cur[p] \in signed[q]

\* No participant is more than one version ahead of another.
VersionGap ==
    \A p, q \in Parts : cur[p].version <= cur[q].version + 1

\* Once one participant holds a final state, nobody gets past its version.
FinalIsLast ==
    \A p, q \in Parts : cur[p].isFinal => cur[q].version <= cur[p].version

\* Updates neither create nor destroy assets.
Conservation == \A p \in Parts : Value(cur[p]) = Value(s0)

\* Two participants are in different states of the same version only if
\* everyone signed both: a single participant that never signs two states of
\* the same version keeps all of them in agreement.
ConflictSignedByAll ==
    \A p, q, r \in Parts :
        cur[p].version = cur[q].version /\ cur[p] # cur[q]
            => {cur[p], cur[q]} \subseteq signed[r]

\* What is inductive of it.
AInv == TypeOK /\ Justified
=============================================================================
