------------------------ MODULE SplitListenerProofs ------------------------
(***************************************************************************)
(* Proof, for any set of clients, that the listener separates HTTPS from   *)
(* plain HTTP.                                                             *)
(***************************************************************************)
EXTENDS SplitListener, SequenceTheorems, TLAPS

Inv == TypeOK /\ SplitRight

(* The initial state satisfies it.                                         *)
LEMMA InitInv == Init => Inv
  <1>1. <<>> \in Seq(Clients)
    BY EmptySeq
  <1> QED
    BY <1>1, NobodyAssumption DEF Init, Inv, TypeOK, SplitRight, Over

(* Accept, the connections' goroutines and the clients preserve it.        *)
LEMMA StepInv == Inv /\ [Next]_vars => Inv'
  <1> SUFFICES ASSUME Inv, [Next]_vars PROVE Inv'
    OBVIOUS
  <1> USE NobodyAssumption DEF Inv, TypeOK, SplitRight, Over, Kinds, Moves
  <1>1. ASSUME NEW c \in Clients, Connect(c) PROVE Inv'
    <2>1. backlog' \in Seq(Clients)
      BY <1>1, AppendProperties DEF Connect
    <2> QED
      BY <1>1, <2>1 DEF Connect
  <1>2. ASSUME NEW c \in Clients, Speak(c) PROVE Inv'
    BY <1>2 DEF Speak
  <1>3. CASE Accept
    <2>1. Head(backlog) \in Clients /\ backlog' \in Seq(Clients)
      BY <1>3, HeadTailProperties DEF Accept
    <2> QED
      BY <1>3, <2>1 DEF Accept
  <1>4. CASE Peek
    BY <1>4 DEF Peek
  <1>5. CASE PeekFails
    BY <1>5 DEF PeekFails
  <1>6. ASSUME NEW c \in Clients, Handshake(c) PROVE Inv'
    BY <1>6 DEF Handshake
  <1>7. ASSUME NEW c \in Clients, ServeHTTP(c) PROVE Inv'
    BY <1>7 DEF ServeHTTP
  <1>8. CASE Break \/ AcceptFails
    BY <1>8 DEF Break, AcceptFails
  <1>9. CASE Quiet \/ UNCHANGED vars
    BY <1>9 DEF Quiet, vars
  <1> QED
    BY <1>1, <1>2, <1>3, <1>4, <1>5, <1>6, <1>7, <1>8, <1>9
       DEF Next, AcceptLoop, Serve

(* The handlers behind the redirect never see a request that came without  *)
(* TLS, and no TLS client is redirected, whatever connects and however     *)
(* short its first bytes are.                                              *)
THEOREM ListenerSplits == Spec => []SplitRight
  <1>1. Inv => SplitRight
    BY DEF Inv
  <1> QED
    BY <1>1, InitInv, StepInv, PTL DEF Spec

(* The backlog and the state of every connection keep their types, and the *)
(* connection that is peeked at is the one that Accept has, no other.      *)
THEOREM TypeCorrect == Spec => []TypeOK
  <1>1. Inv => TypeOK
    BY DEF Inv
  <1> QED
    BY <1>1, InitInv, StepInv, PTL DEF Spec
=============================================================================
