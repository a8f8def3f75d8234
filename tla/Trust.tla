-------------------------------- MODULE Trust -------------------------------
(***************************************************************************)
(* Who a name is: the key a node has pinned for one peer name, the key     *)
(* that has since claimed the name, and the sessions, incoming messages    *)
(* and user decisions that race with both.                                 *)
(*                                                                         *)
(* internal/store/store.go (Observe, SetVerified, AcceptPendingKey,        *)
(* ForgetPeer), internal/node/node.go (establish, runSession, SendReply),  *)
(* internal/node/views.go (Verify, AcceptKey, Forget).  Every store call   *)
(* is one transaction; establish, readLoop, SendReply and Forget are split *)
(* between the store and the sessions.                                     *)
(*                                                                         *)
(* A definition whose name starts with Faulty is a plausible bug in the    *)
(* one that follows it; no specification uses it.                          *)
(***************************************************************************)
EXTENDS Naturals

CONSTANTS
  Keys,     \* the static keys that may complete a handshake under this name
  NoKey,    \* no key
  MaxConn   \* connections whose handshake completes

ASSUME TrustConstants == NoKey \notin Keys /\ MaxConn \in Nat

VARIABLES
  pin,        \* Peer.Key, or NoKey when the store has no such peer
  pending,    \* Peer.PendingKey
  verified,   \* Peer.Verified
  mail,       \* the store has messages with this peer
  sess,       \* each connection's place in establish and runSession
  key,        \* the key each connection authenticated
  live,       \* Node.live of this name, or NoConn
  reading,    \* connections whose read loop holds a message not yet stored
  composing,  \* a SendReply has passed its checks and not yet stored its message
  forgetting, \* a Forget has closed the live link and not yet deleted the peer
  vouched,    \* history: the key pinned when the user last marked it verified
  overruled   \* history: connections observed before the user last replaced the pin

storeVars == <<pin, pending, verified, mail>>
sessVars  == <<sess, key, live, reading>>
userVars  == <<composing, forgetting>>
histVars  == <<vouched, overruled>>
vars == <<storeVars, sessVars, userVars, histVars>>

Conn   == 1 .. MaxConn
NoConn == 0

Init ==
  /\ pin = NoKey /\ pending = NoKey /\ verified = FALSE /\ mail = FALSE
  /\ sess = [c \in Conn |-> "none"] /\ key = [c \in Conn |-> NoKey]
  /\ live = NoConn /\ reading = {}
  /\ composing = FALSE /\ forgetting = FALSE
  /\ vouched = NoKey /\ overruled = {}

-----------------------------------------------------------------------------
(* establish and runSession, for connection c.                             *)

FaultyHandshake(c, k) ==
  /\ sess[c] = "none" /\ \A d \in 1 .. c - 1 : sess[d] # "none"
  /\ sess' = [sess EXCEPT ![c] = "hs"]
  /\ UNCHANGED <<storeVars, key, live, reading, userVars, histVars>>

\* The handshake authenticates key k under this name.
Handshake(c, k) ==
  /\ sess[c] = "none" /\ \A d \in 1 .. c - 1 : sess[d] # "none"
  /\ sess' = [sess EXCEPT ![c] = "hs"]
  /\ key' = [key EXCEPT ![c] = k]
  /\ UNCHANGED <<storeVars, live, reading, userVars, histVars>>

\* The key is not the fingerprint an explicit Dial expects: the connection is
\* dropped before the pin is looked at.
FPMismatch(c) ==
  /\ sess[c] = "hs"
  /\ sess' = [sess EXCEPT ![c] = "gone"]
  /\ UNCHANGED <<storeVars, key, live, reading, userVars, histVars>>

FaultyObserve(c) ==
  /\ sess[c] = "hs"
  /\ \/ /\ pin \in {NoKey, key[c]}
        /\ pin' = key[c] /\ pending' = NoKey
        /\ sess' = [sess EXCEPT ![c] = "observed"]
     \/ /\ pin \notin {NoKey, key[c]} /\ pending = key[c]
        /\ pin' = key[c] /\ pending' = NoKey
        /\ sess' = [sess EXCEPT ![c] = "observed"]
     \/ /\ pin \notin {NoKey, key[c]} /\ pending # key[c]
        /\ pending' = key[c]
        /\ sess' = [sess EXCEPT ![c] = "gone"]
        /\ UNCHANGED pin
  /\ UNCHANGED <<verified, mail, key, live, reading, userVars, histVars>>

FaultyObserveLenient(c) ==
  /\ sess[c] = "hs"
  /\ pin' = IF pin = NoKey THEN key[c] ELSE pin
  /\ pending' = IF pin \in {NoKey, key[c]} THEN NoKey ELSE key[c]
  /\ sess' = [sess EXCEPT ![c] = "observed"]
  /\ UNCHANGED <<verified, mail, key, live, reading, userVars, histVars>>

\* Observe: an unknown name is pinned, the pinned key clears the pending one,
\* and any other key becomes pending and loses its session.
Observe(c) ==
  /\ sess[c] = "hs"
  /\ \/ /\ pin = NoKey
        /\ pin' = key[c] /\ pending' = NoKey /\ verified' = FALSE
        /\ sess' = [sess EXCEPT ![c] = "observed"]
     \/ /\ pin = key[c]
        /\ pending' = NoKey
        /\ sess' = [sess EXCEPT ![c] = "observed"]
        /\ UNCHANGED <<pin, verified>>
     \/ /\ pin \notin {NoKey, key[c]}
        /\ pending' = key[c]
        /\ sess' = [sess EXCEPT ![c] = "gone"]
        /\ UNCHANGED <<pin, verified>>
  /\ UNCHANGED <<mail, key, live, reading, userVars, histVars>>

\* The rest of establish: the link becomes the live one, the old one is closed.
Register(c) ==
  /\ sess[c] = "observed"
  /\ sess' = [d \in Conn |-> CASE d = c -> "up"
                               [] d = live /\ sess[d] = "up" -> "closed"
                               [] OTHER -> sess[d]]
  /\ live' = c
  /\ UNCHANGED <<storeVars, key, reading, userVars, histVars>>

\* The connection breaks, or the peer closes it.
Close(c) ==
  /\ sess[c] = "up"
  /\ sess' = [sess EXCEPT ![c] = "closed"]
  /\ UNCHANGED <<storeVars, key, live, reading, userVars, histVars>>

\* readLoop receives a message ...
Recv(c) ==
  /\ sess[c] = "up" /\ c \notin reading
  /\ reading' = reading \cup {c}
  /\ UNCHANGED <<storeVars, sess, key, live, userVars, histVars>>

\* ... and stores it, whatever has become of the link and the peer since.
AddMessage(c) ==
  /\ c \in reading
  /\ reading' = reading \ {c}
  /\ mail' = TRUE
  /\ UNCHANGED <<pin, pending, verified, sess, key, live, userVars, histVars>>

runSessionEnds(c) ==
  /\ sess[c] = "closed" /\ c \notin reading
  /\ sess' = [sess EXCEPT ![c] = "gone"]
  /\ live' = IF live = c THEN NoConn ELSE live
  /\ UNCHANGED <<storeVars, key, reading, userVars, histVars>>

\* The node is restarted: the store survives.
Restart ==
  /\ sess' = [c \in Conn |-> IF sess[c] = "none" THEN "none" ELSE "gone"]
  /\ live' = NoConn /\ reading' = {}
  /\ composing' = FALSE /\ forgetting' = FALSE
  /\ UNCHANGED <<storeVars, key, histVars>>

-----------------------------------------------------------------------------
(* The user.                                                               *)

\* The user compares the words of the pinned key and marks it; that they click
\* before anything changes under the page is taken for granted.
Verify(v) ==
  /\ pin # NoKey
  /\ verified' = v
  /\ vouched' = IF v THEN pin ELSE vouched
  /\ UNCHANGED <<pin, pending, mail, sessVars, userVars, overruled>>

\* Connections that have been observed.
Observed == {c \in Conn : sess[c] \notin {"none", "hs"}}

FaultyAcceptKey ==
  /\ pending # NoKey
  /\ pin' = pending /\ pending' = NoKey
  /\ overruled' = Observed
  /\ UNCHANGED <<verified, mail, sessVars, userVars, vouched>>

\* AcceptPendingKey: the pending key becomes the pin, verified by nobody.
AcceptKey ==
  /\ pending # NoKey
  /\ pin' = pending /\ pending' = NoKey /\ verified' = FALSE
  /\ overruled' = Observed
  /\ UNCHANGED <<mail, sessVars, userVars, vouched>>

\* Forget closes the live link ...
ForgetClose ==
  /\ ~forgetting
  /\ forgetting' = TRUE
  /\ sess' = [c \in Conn |-> IF c = live /\ sess[c] = "up" THEN "closed" ELSE sess[c]]
  /\ UNCHANGED <<storeVars, key, live, reading, composing, histVars>>

\* ... and deletes the peer with its messages, if the store has it.
ForgetPeer ==
  /\ forgetting
  /\ forgetting' = FALSE
  /\ IF pin = NoKey
       THEN UNCHANGED <<storeVars, overruled>>
       ELSE /\ pin' = NoKey /\ pending' = NoKey /\ verified' = FALSE /\ mail' = FALSE
            /\ overruled' = Observed
  /\ UNCHANGED <<sessVars, composing, vouched>>

\* SendReply: the peer is known and its key has not changed ...
SendCheck ==
  /\ ~composing /\ pin # NoKey /\ pending = NoKey
  /\ composing' = TRUE
  /\ UNCHANGED <<storeVars, sessVars, forgetting, histVars>>

\* ... and the message goes into the outbox.
SendStore ==
  /\ composing
  /\ composing' = FALSE
  /\ mail' = TRUE
  /\ UNCHANGED <<pin, pending, verified, sessVars, forgetting, histVars>>

Next ==
  \/ \E c \in Conn, k \in Keys : Handshake(c, k)
  \/ \E c \in Conn : \/ FPMismatch(c) \/ Observe(c) \/ Register(c) \/ Close(c)
                     \/ Recv(c) \/ AddMessage(c) \/ runSessionEnds(c)
  \/ Restart
  \/ \E v \in BOOLEAN : Verify(v)
  \/ AcceptKey \/ ForgetClose \/ ForgetPeer \/ SendCheck \/ SendStore

Spec == Init /\ [][Next]_vars

-----------------------------------------------------------------------------
TypeOK ==
  /\ pin \in Keys \cup {NoKey} /\ pending \in Keys \cup {NoKey}
  /\ verified \in BOOLEAN /\ mail \in BOOLEAN
  /\ sess \in [Conn -> {"none", "hs", "observed", "up", "closed", "gone"}]
  /\ key \in [Conn -> Keys \cup {NoKey}]
  /\ \A c \in Conn : sess[c] # "none" => key[c] # NoKey
  /\ live \in Conn \cup {NoConn} /\ reading \subseteq Conn
  /\ composing \in BOOLEAN /\ forgetting \in BOOLEAN
  /\ vouched \in Keys \cup {NoKey} /\ overruled \subseteq Conn

\* A peer shown as verified is pinned to the very key the user compared, also
\* after its key changed and was accepted, or it was forgotten and came back.
VerifiedKeyIsPinned == verified => pin # NoKey /\ vouched = pin

\* Trust on first use: only the user replaces a pinned key.  It becomes the
\* pending key in the step in which they accept that key, and goes in the step
\* in which they forget the peer; no handshake, session, message or restart
\* touches it, however often another key claims the name.
PinKept ==
  [][pin # NoKey /\ pin' # pin =>
       \/ AcceptKey /\ pin' = pending
       \/ ForgetPeer /\ pin' = NoKey]_vars

\* A session that passed establish holds the pinned key, unless the user has
\* accepted another key or forgotten the peer since it was observed.
SessionsArePinned ==
  \A c \in Conn \ overruled : sess[c] \in {"observed", "up"} => key[c] = pin

\* views.go on Forget, "removes a peer and all messages with it, and drops any
\* live session", and on AcceptKey, "The peer's live session, if any, is
\* unaffected (none can exist while changed)": nothing outlives the pin it came
\* under.  A session that is up holds the pinned key, and a peer that is not in
\* the store has no messages there.
NothingOutlivesThePin ==
  /\ \A c \in Conn : sess[c] = "up" => key[c] = pin
  /\ mail => pin # NoKey

=============================================================================
