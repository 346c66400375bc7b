---------------------------- MODULE CreditWindow ----------------------------
(***************************************************************************)
(* What flow control promises: frames are numbered in the order the sender *)
(* opens them, at most Window of them are unacknowledged at a time, the    *)
(* receiver acknowledges each frame once, and every opened frame gets its  *)
(* credit back.                                                            *)
(***************************************************************************)
EXTENDS Naturals, FiniteSets

CONSTANTS Window, MaxFrames   \* CreditAssumption of CameraCredit types them

VARIABLES
  opened,   \* frames opened so far
  unacked,  \* opened, the receiver has not acknowledged them
  onWay     \* acknowledged, the credit is on its way back

vars == <<opened, unacked, onWay>>

Init == opened = 0 /\ unacked = {} /\ onWay = {}

Open ==
  /\ opened < MaxFrames
  /\ Cardinality(unacked) + Cardinality(onWay) < Window
  /\ opened' = opened + 1
  /\ unacked' = unacked \cup {opened}
  /\ UNCHANGED onWay

(* One step of the receiver may settle several frames. *)
Acknowledge(S) ==
  /\ S # {} /\ S \subseteq unacked
  /\ unacked' = unacked \ S
  /\ onWay' = onWay \cup S
  /\ UNCHANGED opened

Return(n) ==
  /\ n \in onWay
  /\ onWay' = onWay \ {n}
  /\ UNCHANGED <<opened, unacked>>

Next == Open \/ (\E S \in SUBSET unacked : Acknowledge(S)) \/ \E n \in onWay : Return(n)

Spec == Init /\ [][Next]_vars
        /\ \A n \in 0 .. (MaxFrames - 1) :
             /\ WF_vars(\E S \in SUBSET unacked : n \in S /\ Acknowledge(S))
             /\ WF_vars(Return(n))
=============================================================================
