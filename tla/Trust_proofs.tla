---------------------------- MODULE Trust_proofs ----------------------------
(***************************************************************************)
(* Proofs about module Trust, for any set of keys and any number of        *)
(* connections.                                                            *)
(***************************************************************************)
EXTENDS Trust, TLAPS

(* The sessions' keys and the verified mark follow the pin only together   *)
(* with one more fact: a pending key belongs to a known peer and is not    *)
(* the pinned key.                                                         *)

Inv ==
  /\ TypeOK
  /\ pending # NoKey => pin \notin {NoKey, pending}
  /\ VerifiedKeyIsPinned
  /\ SessionsArePinned

\* Every step of the sessions and of the user preserves Inv.
LEMMA InvStep ==
  ASSUME Inv, [Next]_vars PROVE Inv'
<1> USE TrustConstants DEF Inv, TypeOK, VerifiedKeyIsPinned, SessionsArePinned
<1>1. ASSUME NEW c \in Conn, NEW k \in Keys, Handshake(c, k) PROVE Inv'
  BY <1>1, Zenon DEF Handshake, storeVars, userVars, histVars
<1>2. ASSUME NEW c \in Conn, FPMismatch(c) PROVE Inv'
  BY <1>2, Zenon DEF FPMismatch, storeVars, userVars, histVars
<1>3. ASSUME NEW c \in Conn, Observe(c) PROVE Inv'
  <2>1. CASE pin = NoKey
    BY <1>3, <2>1, Zenon DEF Observe, userVars, histVars
  <2>2. CASE pin = key[c]
    BY <1>3, <2>2 DEF Observe, userVars, histVars
  <2>3. CASE pin \notin {NoKey, key[c]}
    BY <1>3, <2>3 DEF Observe, userVars, histVars
  <2> QED
    BY <2>1, <2>2, <2>3, Zenon
<1>4. ASSUME NEW c \in Conn, Register(c) PROVE Inv'
  BY <1>4, Zenon DEF Register, storeVars, userVars, histVars
<1>5. ASSUME NEW c \in Conn, Close(c) PROVE Inv'
  BY <1>5, Zenon DEF Close, storeVars, userVars, histVars
<1>6. ASSUME NEW c \in Conn, Recv(c) \/ AddMessage(c) PROVE Inv'
  <2>1. CASE Recv(c)
    BY <2>1, Zenon DEF Recv, storeVars, userVars, histVars
  <2>2. CASE AddMessage(c)
    BY <2>2, Zenon DEF AddMessage, userVars, histVars
  <2> QED
    BY <1>6, <2>1, <2>2, Zenon
<1>7. ASSUME NEW c \in Conn, runSessionEnds(c) PROVE Inv'
  BY <1>7, Zenon DEF runSessionEnds, storeVars, userVars, histVars
<1>8. CASE Restart
  BY <1>8, Zenon DEF Restart, storeVars, histVars
<1>9. ASSUME NEW v \in BOOLEAN, Verify(v) PROVE Inv'
  BY <1>9, Zenon DEF Verify, sessVars, userVars
<1>10. CASE AcceptKey
  BY <1>10, Zenon DEF AcceptKey, Observed, sessVars, userVars
<1>11. CASE ForgetClose
  BY <1>11, Zenon DEF ForgetClose, storeVars, histVars
<1>12. CASE ForgetPeer
  BY <1>12, Zenon DEF ForgetPeer, Observed, storeVars, sessVars
<1>13. CASE SendCheck \/ SendStore
  <2>1. CASE SendCheck
    BY <2>1, Zenon DEF SendCheck, storeVars, sessVars, histVars
  <2>2. CASE SendStore
    BY <2>2, Zenon DEF SendStore, sessVars, histVars
  <2> QED
    BY <1>13, <2>1, <2>2, Zenon
<1>14. CASE UNCHANGED vars
  BY <1>14, Zenon DEF vars, storeVars, sessVars, userVars, histVars
<1> QED
  BY <1>1, <1>2, <1>3, <1>4, <1>5, <1>6, <1>7, <1>8, <1>9, <1>10, <1>11, <1>12, <1>13, <1>14, Zenon
     DEF Next

\* The inductive invariant holds throughout.
THEOREM InvHolds == Spec => []Inv
<1>1. Init => Inv
  BY TrustConstants, Zenon
     DEF Init, Inv, TypeOK, VerifiedKeyIsPinned, SessionsArePinned, Conn, NoConn
<1> QED
  BY <1>1, InvStep, PTL DEF Spec

\* Every variable stays in its type, and a connection past its handshake has
\* the key it authenticated.
THEOREM TypeCorrect == Spec => []TypeOK
BY InvHolds, PTL DEF Inv

\* A verified mark never outlives the key the user compared, whatever keys
\* claim the name and whatever is accepted, forgotten and pinned again.
THEOREM VerifiedIsSound == Spec => []VerifiedKeyIsPinned
BY InvHolds, PTL DEF Inv

\* Every session that establish lets through holds the pinned key until the
\* user changes the pin.
THEOREM SessionsSound == Spec => []SessionsArePinned
BY InvHolds, PTL DEF Inv

\* Trust on first use: the pinned key changes in no step but the two in which
\* the user accepts the pending key or forgets the peer.
THEOREM PinIsKept == Spec => PinKept
<1> DEFINE ByUser == (AcceptKey /\ pin' = pending) \/ (ForgetPeer /\ pin' = NoKey)
<1>1. [Next]_vars => [pin # NoKey /\ pin' # pin => ByUser]_vars
  <2> SUFFICES ASSUME Next, pin # NoKey, pin' # pin PROVE ByUser
    BY Zenon
  <2>1. AcceptKey \/ ForgetPeer
    BY Zenon DEF Next, Handshake, FPMismatch, Observe, Register, Close, Recv, AddMessage,
           runSessionEnds, Restart, Verify, ForgetClose, SendCheck, SendStore, storeVars
  <2>2. CASE AcceptKey
    BY <2>2, Zenon DEF AcceptKey
  <2>3. CASE ForgetPeer
    BY <2>3, Zenon DEF ForgetPeer, storeVars
  <2> QED
    BY <2>1, <2>2, <2>3, Zenon
<1> QED
  BY <1>1, PTL DEF Spec, PinKept

=============================================================================
