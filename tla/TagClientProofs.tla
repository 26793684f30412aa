--------------------------- MODULE TagClientProofs ---------------------------
(***************************************************************************)
(* Theorems about TagClient for any names, contents, length of the queue,  *)
(* number of rebinds and of disturbances.                                  *)
(*                                                                         *)
(* TypeInv adds to the types what each stage of an attempt has.  NewsInv   *)
(* adds that what was read of the Hub is of its past, one catalog to each  *)
(* revision of a process (Revisions), and that from the answer on that the *)
(* worker compares with its catalog the notice of a commit reaches it      *)
(* (Told).  ValueInv adds that readings travel in the order of their times *)
(* (InTime, OneContent), that the last one sent has the content the Hub    *)
(* compares with (LastSent), and that what was fetched after it is the     *)
(* present reading or another one is to be sent (FetchedLater).            *)
(***************************************************************************)
EXTENDS TagClient, WellFoundedInduction, TLAPS

(* What each stage of an attempt has.                                      *)
Attempting == at \notin {"catalog", "backoff", "ended"}
Stages ==
    /\ ~Attempting => cat = None /\ sock = NoSocket
    /\ Attempting => cat # None
    /\ at = "connect" => sock = NoSocket
    /\ at \notin {"values", "live"} => rest = None
    /\ at \notin {"first", "values", "live"} => gate = NoGate
    /\ at = "values" => rest = None
    /\ at = "live" => rest # None
    /\ resp # None => at \in {"catalog", "values", "recheck"}

(* The WebSocket sends nothing before it serves, and who had an answer was *)
(* served.                                                                 *)
Wire ==
    /\ sock.at = "none" => sock = NoSocket
    /\ sock.at = "upgrading" => sock.down = <<>> /\ \A n \in Names : sock.base[n] = None
    /\ at \in {"first", "pong"} => sock.at # "none"
    /\ at \in {"values", "live", "recheck", "unbound"} => sock.at \in {"serving", "gone"}

(* What a client that holds its handle sees.                               *)
Shown ==
    /\ stop = "no" <=> handle = "held"
    /\ handle = "held" /\ at \in {"live", "unbound"} => pub.cat = cat
    /\ handle = "held" /\ at = "live" => pub.vals = Finalized(gate, rest)

TypeInv == TypeOK /\ Stages /\ Wire /\ Shown

-----------------------------------------------------------------------------
(* What was read of the Hub is of the past; of one process, one revision   *)
(* has one catalog.                                                        *)
Past(x) == /\ x.proc <= hub.proc
           /\ x.proc = hub.proc => x.rev <= hub.rev
           /\ x.proc = hub.proc /\ x.rev = hub.rev => x.tags = hub.tags
Answering == resp # None /\ resp.st \in {"read", "sent"}
Revisions ==
    /\ cat # None => Past(cat)
    /\ Answering => Past(resp)
    /\ cat # None /\ Answering /\ cat.proc = resp.proc /\ cat.rev = resp.rev => cat.tags = resp.tags
    /\ cat # None /\ Answering /\ resp.st = "sent" /\ Agrees(resp) /\ cat.tags # resp.tags => twin

(* The client will hear of a commit.                                       *)
Announced ==
    \/ unsent \/ sock.unread \/ sock.at = "gone"
    \/ \E i \in DOMAIN sock.down : sock.down[i].op = "config_changed"
Replaced(x) == x.rev # hub.rev \/ x.tags # hub.tags
Told ==
    /\ at \in {"values", "recheck"} /\ Answering /\ Replaced(resp) => Announced
    /\ at \in {"live", "unbound"} /\ Replaced(cat) /\ ~twin => Announced

NewsInv == TypeInv /\ Revisions /\ Told

-----------------------------------------------------------------------------
(* Readings come in the order of their times.                              *)
Data(i, n) == sock.down[i].vals[n]
InTime(n) ==
    /\ \A m \in Sent(n) : m.t <= reading[n].t
    /\ Fetched(n) # None => Fetched(n).t <= reading[n].t
    /\ \A i, j \in Coming(n) : i < j => Data(i, n).t <= Data(j, n).t
    /\ gate[n] # None => \A i \in Coming(n) : gate[n].t <= Data(i, n).t

(* As long as times grow, those of one time have one content.              *)
OneContent(n) ==
    ~odd => /\ \A m \in Sent(n) : m.t = reading[n].t => m.v = reading[n].v
            /\ Fetched(n) # None =>
                 /\ Fetched(n).t = reading[n].t => Fetched(n).v = reading[n].v
                 /\ \A m \in Sent(n) : m.t = Fetched(n).t => m.v = Fetched(n).v

(* The last reading sent has the content that the next is compared with.   *)
LastSent(n) ==
    sock.at = "serving" /\ sock.base[n] # None =>
      /\ Coming(n) = {} => gate[n] # None /\ gate[n].v = sock.base[n]
      /\ \A i \in Coming(n) : (\A j \in Coming(n) : j <= i) => Data(i, n).v = sock.base[n]

(* What was fetched after it is the present reading, or another is to be   *)
(* sent.                                                                   *)
FetchedLater(n) ==
    /\ sock.at = "serving" /\ ~odd /\ Fetched(n) # None /\ sock.base[n] = reading[n].v
    /\ \A m \in Sent(n) : m.t < Fetched(n).t
    => Fetched(n).v = reading[n].v

(* Every name of the catalog is fetched.                                   *)
AllFetched ==
    /\ at = "live" => \A n \in cat.tags : rest[n] # None
    /\ at = "values" /\ Arrived => \A n \in cat.tags : resp.vals[n] # None

ValuesOf(n) == InTime(n) /\ OneContent(n) /\ LastSent(n) /\ FetchedLater(n)
ValueInv == TypeInv /\ AllFetched /\ \A n \in Names : ValuesOf(n)

-----------------------------------------------------------------------------
(* Types. *)

Ats == {"catalog", "connect", "first", "values", "live", "pong", "recheck", "unbound", "backoff", "ended"}
HubTyped ==
    /\ hub \in Hubs /\ reading \in [Names -> Readings]
    /\ unsent \in BOOLEAN /\ key \in BOOLEAN /\ odd \in BOOLEAN /\ twin \in BOOLEAN
    /\ left \in 0..Disturbances
SockTyped == sock \in Sockets
RespTyped == resp \in Responses \cup {None}
WorkTyped ==
    /\ at \in Ats /\ mode \in 0..MaxRebinds /\ cat \in Catalogs \cup {None}
    /\ gate \in [Names -> Received \cup {None}] /\ rest \in Values \cup {None} /\ pub \in Shows
HandleTyped ==
    /\ handle \in {"held", "stopping", "restarting", "dropped", "done"}
    /\ stop \in {"no", "racing", "sent"}
Showing == handle = "held" => (pub.cat # None <=> at \in {"live", "unbound"})

LEMMA TypeParts ==
    /\ TypeInv <=> /\ HubTyped /\ SockTyped /\ RespTyped /\ WorkTyped /\ HandleTyped /\ Showing
                   /\ Stages /\ Wire /\ Shown
    /\ TypeInv' <=> /\ HubTyped' /\ SockTyped' /\ RespTyped' /\ WorkTyped' /\ HandleTyped' /\ Showing'
                    /\ Stages' /\ Wire' /\ Shown'
BY DEF TypeInv, TypeOK, HubTyped, SockTyped, RespTyped, WorkTyped, HandleTyped, Showing, Ats

LEMMA NoneIsNone ==
    /\ None \notin Contents /\ None \notin Nat /\ None \notin Readings /\ None \notin Received
    /\ None \notin Values /\ None \notin Catalogs /\ None \notin Responses
    /\ QueueCapacity \in Nat \ {0} /\ MaxRebinds \in Nat /\ Disturbances \in Nat
BY ClientAssumption DEF ClientAssumption

LEMMA Blanks ==
    /\ NoSocket \in Sockets /\ NoSocket.at = "none"
    /\ Upgrading \in Sockets /\ Upgrading.at = "upgrading" /\ Upgrading.down = <<>>
    /\ NoSocket.down = <<>> /\ \A n \in Names : Upgrading.base[n] = None
    /\ NoGate \in [Names -> Received \cup {None}]
    /\ \A st \in {"stopped", "connecting", "handshaking", "live", "unbound", "rebinding",
                  "reconnecting", "unauthorized"} :
         Show(st) \in Shows /\ Show(st).cat = None /\ Show(st).st = st
<1>1. NoSocket \in Sockets /\ NoSocket.at = "none"
  <2>1. [n \in Names |-> None] \in [Names -> Contents \cup {None}] /\ <<>> \in Seq(Messages)
    OBVIOUS
  <2> QED
    BY <2>1 DEF NoSocket, Sockets
<1>2. Upgrading \in Sockets /\ Upgrading.at = "upgrading" /\ Upgrading.down = <<>>
  BY <1>1 DEF Upgrading, Sockets, NoSocket
<1>5. NoSocket.down = <<>> /\ \A n \in Names : Upgrading.base[n] = None
  BY DEF Upgrading, NoSocket
<1>3. NoGate \in [Names -> Received \cup {None}]
  BY DEF NoGate
<1>4. \A st \in {"stopped", "connecting", "handshaking", "live", "unbound", "rebinding",
                 "reconnecting", "unauthorized"} :
         Show(st) \in Shows /\ Show(st).cat = None /\ Show(st).st = st
  BY DEF Show, Shows
<1> QED
  BY <1>1, <1>2, <1>3, <1>4, <1>5

(* What a WebSocket becomes when it ends, and when something is sent on it.*)
LEMMA GoneGives ==
    ASSUME NEW s \in Sockets, NEW why \in {"none", "broken", "credential"}
    PROVE  Gone(s, why) \in Sockets /\ Gone(s, why).at = "gone" /\ Gone(s, why).down = s.down
<1>1. s.down \in Seq(Messages)
  BY DEF Sockets
<1> QED
  BY <1>1, Blanks DEF Gone, Sockets, NoSocket

LEMMA EnqueueGives ==
    ASSUME NEW s \in Sockets, NEW m \in Messages, s.at = "serving"
    PROVE  /\ Enqueue(s, m) \in Sockets /\ Enqueue(s, m).at \in {"serving", "gone"}
           /\ \/ Enqueue(s, m) = [s EXCEPT !.down = Append(s.down, m)]
              \/ Enqueue(s, m).at = "gone" /\ Enqueue(s, m).down = s.down
<1>1. s.down \in Seq(Messages) /\ Append(s.down, m) \in Seq(Messages)
  BY DEF Sockets
<1>2. [s EXCEPT !.down = Append(s.down, m)] \in Sockets /\ [s EXCEPT !.down = Append(s.down, m)].at = "serving"
  BY <1>1 DEF Sockets
<1> QED
  BY <1>2, GoneGives DEF Enqueue

(* Steps of the Hub and of the WebSocket leave the worker and its handle.  *)
Served == /\ sock' = sock \/ (sock.at \in {"upgrading", "serving"} /\ sock'.at \in {"serving", "gone"})
          /\ resp' # None => resp # None \/ at \in {"catalog", "values", "recheck"}
LEMMA SideStep ==
    ASSUME TypeInv, HubTyped', SockTyped', RespTyped', UNCHANGED <<workVars, handle, stop>>, Served
    PROVE  TypeInv'
<1>1. UNCHANGED <<at, mode, cat, gate, rest, pub, handle, stop>>
  BY DEF workVars
<1>2. WorkTyped' /\ HandleTyped' /\ Showing' /\ Shown'
  BY <1>1, TypeParts DEF WorkTyped, HandleTyped, Showing, Shown, Finalized, Overlays
<1>3. Stages'
  BY <1>1, TypeParts, Blanks DEF Stages, Attempting, Served
<1>4. Wire'
  BY <1>1, TypeParts, Blanks DEF Wire, Served
<1> QED
  BY <1>2, <1>3, <1>4, TypeParts

(* An attempt that ends leaves nothing.                                    *)
Leaves ==
    /\ UNCHANGED <<hub, reading, unsent, key, odd, handle, twin>> /\ Ended
    /\ at' \in {"catalog", "backoff", "ended"} /\ mode' \in 0..MaxRebinds
    /\ pub' \in Shows /\ (handle = "held" => pub'.cat = None)
    /\ stop' \in {"no", "racing", "sent"} /\ (stop' = "no" <=> stop = "no")
    /\ left' \in 0..Disturbances
LEMMA LeavesTyped ==
    ASSUME TypeInv, Leaves
    PROVE  TypeInv'
<1>1. /\ cat' = None /\ gate' = NoGate /\ rest' = None /\ sock' = NoSocket /\ resp' = None
      /\ at' \in {"catalog", "backoff", "ended"} /\ pub' \in Shows /\ mode' \in 0..MaxRebinds
      /\ (handle = "held" => pub'.cat = None) /\ handle' = handle
  BY DEF Leaves, Ended
<1>2. HubTyped'
  BY TypeParts DEF Leaves, HubTyped
<1>3. WorkTyped' /\ SockTyped' /\ RespTyped'
  BY <1>1, Blanks DEF WorkTyped, Ats, SockTyped, RespTyped
<1>4. HandleTyped' /\ Showing' /\ Shown'
  BY <1>1, TypeParts DEF Leaves, HandleTyped, Showing, Shown
<1>5. Stages' /\ Wire'
  BY <1>1, Blanks DEF Stages, Wire, Attempting
<1> QED
  BY <1>2, <1>3, <1>4, <1>5, TypeParts

(* The Hub.                                                                *)
LEMMA HubFields ==
    ASSUME TypeInv
    PROVE  /\ hub.proc \in Nat /\ hub.rev \in Nat /\ hub.tags \subseteq Names /\ hub.on \in BOOLEAN /\ hub.runs \in Nat
           /\ hub = [proc |-> hub.proc, rev |-> hub.rev, tags |-> hub.tags, on |-> hub.on, runs |-> hub.runs]
           /\ Run \in Nat /\ left \in 0..Disturbances /\ sock \in Sockets
           /\ \A n \in Names : reading[n] \in Readings /\ reading[n].t \in Nat /\ reading[n].v \in Contents
BY TypeParts DEF HubTyped, Hubs, Run, Readings, SockTyped

LEMMA SpendTyped ==
    ASSUME TypeInv, Spend
    PROVE  left' \in 0..Disturbances
BY HubFields, NoneIsNone DEF Spend

LEMMA CommitTyped ==
    ASSUME TypeInv, Commit
    PROVE  TypeInv'
<1>1. left' \in 0..Disturbances
  BY SpendTyped DEF Commit, Disturb
<1>2. PICK tags \in SUBSET Names : hub' = [hub EXCEPT !.rev = @ + 1, !.tags = tags]
  BY DEF Commit
<1>3. hub' \in Hubs
  <2>1. hub.rev + 1 \in Nat /\ hub \in Hubs
    BY HubFields, TypeParts DEF HubTyped
  <2> QED
    BY <1>2, <2>1 DEF Hubs
<1>4. HubTyped' /\ SockTyped' /\ RespTyped'
  BY <1>1, <1>3, TypeParts DEF Commit, HubTyped, SockTyped, RespTyped
<1> QED
  BY <1>4, SideStep DEF Commit, Served

LEMMA SendRevisionTyped ==
    ASSUME TypeInv, SendRevision
    PROVE  TypeInv' /\ sock'.at = sock.at /\ sock'.down = sock.down /\ sock'.base = sock.base
           /\ sock'.unread = (sock.unread \/ sock.at = "serving")
<1>1. sock' = [sock EXCEPT !.unread = sock.unread \/ sock.at = "serving"]
  BY DEF SendRevision
<1>2. sock' \in Sockets /\ sock'.at = sock.at /\ sock'.down = sock.down /\ sock'.base = sock.base
      /\ sock'.unread = (sock.unread \/ sock.at = "serving")
  BY <1>1, HubFields DEF Sockets
<1>3. HubTyped' /\ SockTyped' /\ RespTyped'
  BY <1>2, TypeParts DEF SendRevision, HubTyped, SockTyped, RespTyped
<1>4. sock' = sock \/ sock.at = "serving"
  <2>1. CASE sock.at = "serving"
    BY <2>1
  <2>2. CASE sock.at # "serving"
    BY <1>1, <2>2, HubFields DEF Sockets
  <2> QED
    BY <2>1, <2>2
<1>5. Served
  BY <1>2, <1>4, Zenon DEF SendRevision, Served
<1> QED
  BY <1>2, <1>3, <1>5, SideStep DEF SendRevision

LEMMA StartOrStopTyped ==
    ASSUME TypeInv, StartOrStop
    PROVE  TypeInv'
<1>1. left' \in 0..Disturbances
  BY SpendTyped DEF StartOrStop, Disturb
<1>2. hub' \in Hubs
  <2>1. hub' = [hub EXCEPT !.on = ~hub.on, !.runs = IF hub.on THEN hub.runs ELSE hub.runs + 1]
    BY DEF StartOrStop
  <2>2. hub \in Hubs /\ (IF hub.on THEN hub.runs ELSE hub.runs + 1) \in Nat
    BY HubFields, TypeParts DEF HubTyped
  <2> QED
    BY <2>1, <2>2 DEF Hubs
<1>3. HubTyped' /\ SockTyped' /\ RespTyped'
  BY <1>1, <1>2, TypeParts DEF StartOrStop, HubTyped, SockTyped, RespTyped
<1> QED
  BY <1>3, SideStep DEF StartOrStop, Served

LEMMA NewReadingTyped ==
    ASSUME TypeInv, NEW n \in Names, NewReading(n)
    PROVE  TypeInv'
<1>1. left' \in 0..Disturbances
  BY SpendTyped DEF NewReading, Disturb
<1>2. reading' \in [Names -> Readings]
  BY HubFields, TypeParts DEF NewReading, HubTyped, Readings
<1>3. odd' \in BOOLEAN
  BY DEF NewReading
<1>4. HubTyped' /\ SockTyped' /\ RespTyped'
  BY <1>1, <1>2, <1>3, TypeParts DEF NewReading, HubTyped, SockTyped, RespTyped
<1> QED
  BY <1>4, SideStep DEF NewReading, Served

LEMMA RestartHubTyped ==
    ASSUME TypeInv, RestartHub
    PROVE  TypeInv' /\ (sock.at \in {"upgrading", "serving"} => sock'.at = "gone" /\ sock'.down = sock.down)
           /\ (sock.at \notin {"upgrading", "serving"} => sock' = sock)
<1>1. left' \in 0..Disturbances
  BY SpendTyped DEF RestartHub, Disturb
<1>2. hub' \in Hubs
  BY HubFields DEF RestartHub, Hubs
<1>3. /\ sock' \in Sockets
      /\ sock.at \in {"upgrading", "serving"} => sock'.at = "gone" /\ sock'.down = sock.down
      /\ sock.at \notin {"upgrading", "serving"} => sock' = sock
  BY GoneGives, HubFields DEF RestartHub
<1>4. [st |-> "failed"] \in Responses
  BY DEF Responses
<1>5. HubTyped' /\ SockTyped' /\ RespTyped'
  BY <1>1, <1>2, <1>3, <1>4, TypeParts DEF RestartHub, HubTyped, SockTyped, RespTyped
<1>6. Served
  BY <1>3 DEF RestartHub, Served
<1> QED
  BY <1>3, <1>5, <1>6, SideStep DEF RestartHub

LEMMA RevokeTyped ==
    ASSUME TypeInv, Revoke
    PROVE  TypeInv'
<1>1. left' \in 0..Disturbances
  BY SpendTyped DEF Revoke, Disturb
<1>3. HubTyped' /\ SockTyped' /\ RespTyped'
  BY <1>1, TypeParts DEF Revoke, HubTyped, SockTyped, RespTyped
<1> QED
  BY <1>3, SideStep DEF Revoke, Served

LEMMA ReadMapTyped ==
    ASSUME TypeInv, ReadMap
    PROVE  TypeInv'
<1>1. [st |-> "failed"] \in Responses /\ [st |-> "unauthorized"] \in Responses
      /\ [st |-> "read", proc |-> hub.proc, rev |-> hub.rev, tags |-> hub.tags] \in Responses
  BY HubFields DEF Responses
<1>2. resp' \in Responses
  BY <1>1 DEF ReadMap
<1>3. HubTyped' /\ SockTyped' /\ RespTyped'
  BY <1>2, TypeParts DEF ReadMap, hubVars, HubTyped, SockTyped, RespTyped
<1> QED
  BY <1>3, SideStep DEF ReadMap, Served

(* What the second read adds to the first.                                 *)
Fetches == [n \in Names |-> IF at = "values" /\ n \in cat.tags THEN reading[n] ELSE None]
LEMMA AnswerTyped ==
    ASSUME TypeInv, Answer
    PROVE  /\ TypeInv' /\ Fetches \in Values /\ resp' \in Responses
           /\ resp' = [st |-> "sent", proc |-> resp.proc, rev |-> resp.rev, tags |-> resp.tags,
                       run |-> Run, vals |-> Fetches]
<1>1. Fetches \in Values
  BY HubFields DEF Fetches, Values
<1>2. resp.proc \in Nat /\ resp.rev \in Nat /\ resp.tags \in SUBSET Names
  BY TypeParts DEF Answer, RespTyped, Responses
<1>3. resp' = [st |-> "sent", proc |-> resp.proc, rev |-> resp.rev, tags |-> resp.tags,
               run |-> Run, vals |-> Fetches]
  BY DEF Answer, Fetches
<1>4. resp' \in Responses
  BY <1>1, <1>2, <1>3, HubFields DEF Responses
<1>5. twin' \in BOOLEAN
  BY DEF Answer
<1>6. HubTyped' /\ SockTyped' /\ RespTyped'
  BY <1>4, <1>5, TypeParts DEF Answer, hubVars, HubTyped, SockTyped, RespTyped
<1>7. TypeInv'
  BY <1>6, SideStep DEF Answer, Served
<1> QED
  BY <1>1, <1>3, <1>4, <1>7

(* The WebSocket.  A step of the Hub's task sends a message or does not,   *)
(* and may end it.                                                         *)
LEMMA SocketTyped ==
    ASSUME TypeInv, UNCHANGED <<hubVars, resp, workVars, handle, stop, twin>>, left' \in 0..Disturbances,
           sock' \in Sockets, sock.at \in {"upgrading", "serving"}, sock'.at \in {"serving", "gone"}
    PROVE  TypeInv'
<1>1. HubTyped' /\ SockTyped' /\ RespTyped'
  BY TypeParts DEF hubVars, HubTyped, SockTyped, RespTyped
<1> QED
  BY <1>1, SideStep DEF Served

LEMMA DataTyped ==
    ASSUME TypeInv, NEW ns \in SUBSET Names
    PROVE  /\ DataOf(ns) \in Messages /\ DataOf(ns).op = "data"
           /\ \A n \in Names : DataOf(ns).vals[n] = IF n \in ns THEN reading[n] ELSE None
           /\ Baseline(ns) \in [Names -> Contents \cup {None}]
           /\ \A n \in Names : Baseline(ns)[n] = IF n \in ns THEN reading[n].v ELSE None
<1>1. [n \in Names |-> IF n \in ns THEN reading[n] ELSE None] \in Values
  BY HubFields DEF Values
<1> QED
  BY <1>1, HubFields DEF DataOf, Baseline, Messages

LEMMA RegistersTyped ==
    ASSUME TypeInv, Registers
    PROVE  TypeInv' /\ sock.at = "upgrading" /\ sock' = [sock EXCEPT !.at = "serving"] /\ sock' \in Sockets
           /\ UNCHANGED <<hubVars, resp, workVars, handle, stop, twin>>
<1>1. sock' \in Sockets /\ sock'.at = "serving"
  BY HubFields DEF Registers, Sockets
<1>2. left' \in 0..Disturbances
  BY HubFields DEF Registers
<1> QED
  BY <1>1, <1>2, SocketTyped DEF Registers

(* What a subscription or an evaluation makes of the socket before it      *)
(* sends.                                                                  *)
Tracks(s, ns) == s \in Sockets /\ s.at = "serving" /\ s.down = sock.down /\ s.base = Baseline(ns)
Sends(s, m) == sock' = Enqueue(s, m) /\ m \in Messages

LEMMA SubscribesTyped ==
    ASSUME TypeInv, Subscribes
    PROVE  /\ TypeInv' /\ sock' \in Sockets /\ UNCHANGED <<hubVars, resp, workVars, handle, stop, twin>>
           /\ \/ \E s : Tracks(s, cat.tags) /\ s.unread = sock.unread /\ Sends(s, DataOf(cat.tags))
              \/ \E s : /\ s \in Sockets /\ s.at = "serving" /\ s.down = sock.down /\ s.base = sock.base
                        /\ s.unread = sock.unread /\ Sends(s, [op |-> "unknown_tag"])
           /\ cat.tags \in SUBSET Names /\ sock.at = "serving"
<1>0. sock.at = "serving" /\ left' = left /\ UNCHANGED <<hubVars, resp, workVars, handle, stop, twin>>
  BY DEF Subscribes, SocketStep
<1>1. cat.tags \in SUBSET Names
  <2>1. sock # NoSocket
    BY <1>0, Blanks
  <2> QED
    BY <2>1, TypeParts DEF Stages, WorkTyped, Catalogs
<1> DEFINE s1 == [sock EXCEPT !.request = "none"]
           s2 == [s1 EXCEPT !.tags = cat.tags, !.base = Baseline(cat.tags)]
<1>2. /\ s1 \in Sockets /\ s1.at = "serving" /\ s1.down = sock.down /\ s1.base = sock.base
      /\ s1.unread = sock.unread
  BY <1>0, HubFields DEF Sockets
<1>3. Tracks(s2, cat.tags) /\ s2.unread = sock.unread
  BY <1>1, <1>2, DataTyped DEF Tracks, Sockets
<1>4. DataOf(cat.tags) \in Messages /\ [op |-> "unknown_tag"] \in Messages
  BY <1>1, DataTyped DEF Messages
<1>5. \/ Sends(s2, DataOf(cat.tags))
      \/ Sends(s1, [op |-> "unknown_tag"])
  BY <1>4 DEF Subscribes, Sends
<1> HIDE DEF s1, s2
<1>6. sock' \in Sockets /\ sock'.at \in {"serving", "gone"}
  BY <1>2, <1>3, <1>5, EnqueueGives DEF Sends, Tracks
<1>7. TypeInv'
  BY <1>0, <1>6, HubFields, SocketTyped
<1> QED
  BY <1>0, <1>1, <1>2, <1>3, <1>5, <1>6, <1>7

LEMMA PongsTyped ==
    ASSUME TypeInv, Pongs
    PROVE  /\ TypeInv' /\ sock' \in Sockets /\ UNCHANGED <<hubVars, resp, workVars, handle, stop, twin>>
           /\ \E s : /\ s \in Sockets /\ s.at = "serving" /\ s.down = sock.down /\ s.base = sock.base
                     /\ s.unread = sock.unread /\ Sends(s, [op |-> "pong"])
           /\ sock.at = "serving"
<1>0. sock.at = "serving" /\ left' = left /\ UNCHANGED <<hubVars, resp, workVars, handle, stop, twin>>
  BY DEF Pongs, SocketStep
<1> DEFINE s1 == [sock EXCEPT !.request = "none"]
<1>2. /\ s1 \in Sockets /\ s1.at = "serving" /\ s1.down = sock.down /\ s1.base = sock.base
      /\ s1.unread = sock.unread
  BY <1>0, HubFields DEF Sockets
<1>5. Sends(s1, [op |-> "pong"])
  BY DEF Pongs, Sends, Messages
<1> HIDE DEF s1
<1>6. sock' \in Sockets /\ sock'.at \in {"serving", "gone"}
  BY <1>2, <1>5, EnqueueGives DEF Sends
<1>7. TypeInv'
  BY <1>0, <1>6, HubFields, SocketTyped
<1> QED
  BY <1>0, <1>2, <1>5, <1>6, <1>7

LEMMA NotifiesTyped ==
    ASSUME TypeInv, Notifies
    PROVE  /\ TypeInv' /\ sock' \in Sockets /\ UNCHANGED <<hubVars, resp, workVars, handle, stop, twin>>
           /\ \E s : /\ s \in Sockets /\ s.at = "serving" /\ s.down = sock.down /\ s.base = sock.base
                     /\ Sends(s, [op |-> "config_changed"])
           /\ sock.at = "serving"
<1>0. sock.at = "serving" /\ left' = left /\ UNCHANGED <<hubVars, resp, workVars, handle, stop, twin>>
  BY DEF Notifies, SocketStep
<1> DEFINE s1 == [sock EXCEPT !.unread = FALSE]
<1>2. s1 \in Sockets /\ s1.at = "serving" /\ s1.down = sock.down /\ s1.base = sock.base
  BY <1>0, HubFields DEF Sockets
<1>5. Sends(s1, [op |-> "config_changed"])
  BY DEF Notifies, Sends, Messages
<1> HIDE DEF s1
<1>6. sock' \in Sockets /\ sock'.at \in {"serving", "gone"}
  BY <1>2, <1>5, EnqueueGives DEF Sends
<1>7. TypeInv'
  BY <1>0, <1>6, HubFields, SocketTyped
<1> QED
  BY <1>0, <1>2, <1>5, <1>6, <1>7

(* The names that the tick compares, and those that differ.                *)
Matched == sock.tags \cap hub.tags
Differ == {n \in Matched : sock.base[n] # reading[n].v}
LEMMA EvaluatesTyped ==
    ASSUME TypeInv, Evaluates
    PROVE  /\ TypeInv' /\ sock' \in Sockets /\ UNCHANGED <<hubVars, resp, workVars, handle, stop, twin>>
           /\ \E s : /\ Tracks(s, Matched) /\ s.unread = sock.unread
                     /\ \/ Differ = {} /\ sock' = s
                        \/ Differ # {} /\ Sends(s, DataOf(Differ))
           /\ Matched \in SUBSET Names /\ sock.at = "serving"
<1>0. sock.at = "serving" /\ left' = left /\ UNCHANGED <<hubVars, resp, workVars, handle, stop, twin>>
  BY DEF Evaluates, SocketStep
<1>1. Matched \in SUBSET Names /\ Differ \in SUBSET Names
  BY HubFields DEF Matched, Differ
<1> DEFINE s1 == [sock EXCEPT !.base = Baseline(Matched)]
<1>2. Tracks(s1, Matched) /\ s1.unread = sock.unread
  BY <1>0, <1>1, HubFields, DataTyped DEF Sockets, Tracks
<1>3. DataOf(Differ) \in Messages
  BY <1>1, DataTyped
<1>4. \/ Differ = {} /\ sock' = s1
      \/ Differ # {} /\ Sends(s1, DataOf(Differ))
  BY <1>3 DEF Evaluates, Sends, Matched, Differ
<1> HIDE DEF s1
<1>6. sock' \in Sockets /\ sock'.at \in {"serving", "gone"}
  BY <1>2, <1>4, EnqueueGives DEF Sends, Tracks
<1>7. TypeInv'
  BY <1>0, <1>6, HubFields, SocketTyped
<1> QED
  BY <1>0, <1>1, <1>2, <1>4, <1>6, <1>7

LEMMA EndsTyped ==
    ASSUME TypeInv, Revalidates \/ Breaks
    PROVE  /\ TypeInv' /\ UNCHANGED <<hubVars, resp, workVars, handle, stop, twin>>
           /\ sock'.at = "gone" /\ sock'.down = sock.down
<1>1. /\ UNCHANGED <<hubVars, resp, workVars, handle, stop, twin>>
      /\ sock' = Gone(sock, "credential") \/ sock' = Gone(sock, "broken")
      /\ sock.at \in {"upgrading", "serving"} /\ (left' = left \/ Spend)
  BY DEF Revalidates, Breaks, SocketStep, Disturb
<1>2. sock' \in Sockets /\ sock'.at = "gone" /\ sock'.down = sock.down
  BY <1>1, HubFields, GoneGives
<1>3. left' \in 0..Disturbances
  BY <1>1, HubFields, SpendTyped
<1> QED
  BY <1>1, <1>2, <1>3, SocketTyped

(* The worker.                                                             *)
LEMMA WorkerHas ==
    ASSUME TypeInv, WorkerStep
    PROVE  /\ stop' \in {"no", "racing", "sent"} /\ (stop' = "no" <=> stop = "no")
           /\ UNCHANGED <<hub, reading, unsent, key, odd, handle, twin>>
BY TypeParts DEF WorkerStep, hubVars, HandleTyped

(* Whoever leaves an attempt leaves nothing of it.                         *)
LEMMA GivesUp ==
    ASSUME TypeInv, WorkerStep, left' \in 0..Disturbances, Rebinds \/ BacksOff \/ Rejected
    PROVE  Leaves
<1>1. mode \in 0..MaxRebinds /\ MaxRebinds \in Nat
  BY TypeParts, NoneIsNone DEF WorkTyped
<1>2. CASE Rebinds
  <2> DEFINE next == IF mode = 0 \/ at \in {"live", "unbound"} THEN 1 ELSE mode + 1
  <2>1. next \in Nat
    BY <1>1
  <2>2. /\ \/ next <= MaxRebinds /\ mode' = next /\ at' = "catalog" /\ pub' = Show("rebinding")
           \/ mode' = 0 /\ at' = "backoff" /\ pub' = Show("reconnecting")
        /\ Ended
    BY <1>2 DEF Rebinds
  <2> HIDE DEF next
  <2>3. mode' \in 0..MaxRebinds
    BY <1>1, <2>1, <2>2
  <2> QED
    BY <2>2, <2>3, Blanks, WorkerHas DEF Leaves
<1>3. CASE BacksOff
  BY <1>1, <1>3, Blanks, WorkerHas DEF Leaves, BacksOff
<1>4. CASE Rejected
  BY <1>1, <1>4, Blanks, WorkerHas DEF Leaves, Rejected
<1> QED
  BY <1>2, <1>3, <1>4

LEMMA Leaving ==
    ASSUME TypeInv,
           \/ ReceivesChange \/ ReceivesEnd \/ PongLate \/ RequestRefused \/ RequestFails \/ ConnectRefused
           \/ SeesStop \/ Aborted \/ (TakesValues /\ ~Agrees(resp)) \/ (TakesRecheck /\ ~(Agrees(resp) /\ resp.tags = {}))
    PROVE  Leaves
<1>1. CASE SeesStop \/ Aborted
  <2>1. mode' = mode /\ at' = "ended" /\ Ended /\ (pub' = Show("stopped") \/ (pub' = pub /\ handle = "dropped"))
        /\ UNCHANGED <<hubVars, handle, stop, twin, left>>
    BY <1>1 DEF SeesStop, Aborted
  <2> QED
    BY <2>1, TypeParts, Blanks DEF Leaves, WorkTyped, HandleTyped, hubVars, HubTyped
<1>2. CASE ~(SeesStop \/ Aborted)
  <2>1. WorkerStep /\ (left' = left \/ Spend)
    BY <1>2 DEF ReceivesChange, ReceivesEnd, PongLate, RequestRefused, RequestFails, ConnectRefused,
                TakesValues, TakesRecheck, Receives
  <2>2. left' \in 0..Disturbances
    BY <2>1, HubFields, SpendTyped
  <2>3. Rebinds \/ BacksOff \/ Rejected
    BY <1>2 DEF ReceivesChange, ReceivesEnd, PongLate, RequestRefused, RequestFails, ConnectRefused,
                TakesValues, TakesRecheck
  <2> QED
    BY <2>1, <2>2, <2>3, GivesUp
<1> QED
  BY <1>1, <1>2

(* A step that goes on with the attempt.                                   *)
LEMMA GoesOn ==
    ASSUME TypeInv, WorkerStep, left' = left,
           SockTyped', RespTyped', WorkTyped', Stages', Wire',
           handle = "held" => (pub'.cat # None <=> at' \in {"live", "unbound"}),
           handle = "held" /\ at' \in {"live", "unbound"} => pub'.cat = cat',
           handle = "held" /\ at' = "live" => pub'.vals = Finalized(gate, rest)'
    PROVE  TypeInv'
<1>1. HubTyped' /\ HandleTyped'
  BY TypeParts, WorkerHas DEF HubTyped, HandleTyped
<1>2. Showing' /\ Shown'
  BY TypeParts, WorkerHas DEF Showing, Shown
<1> QED
  BY <1>1, <1>2, TypeParts

LEMMA BackoffElapsesTyped ==
    ASSUME TypeInv, BackoffElapses
    PROVE  TypeInv'
<1>1. SockTyped' /\ RespTyped' /\ WorkTyped'
  BY TypeParts, Blanks DEF BackoffElapses, SockTyped, RespTyped, WorkTyped, Ats
<1>2. Stages' /\ Wire'
  BY TypeParts DEF BackoffElapses, Stages, Wire, Attempting
<1> QED
  BY <1>1, <1>2, GoesOn, Blanks DEF BackoffElapses

LEMMA TakesCatalogTyped ==
    ASSUME TypeInv, TakesCatalog
    PROVE  TypeInv' /\ cat' \in Catalogs
<1>1. cat' \in Catalogs
  BY TypeParts DEF TakesCatalog, Arrived, RespTyped, Responses, Catalogs
<1>2. pub' \in Shows /\ (handle = "held" => pub'.cat = None)
  BY TypeParts, Blanks DEF TakesCatalog, WorkTyped, Showing
<1>3. SockTyped' /\ RespTyped' /\ WorkTyped'
  BY <1>1, <1>2, TypeParts DEF TakesCatalog, SockTyped, RespTyped, WorkTyped, Ats
<1>4. Stages' /\ Wire'
  BY <1>1, TypeParts, NoneIsNone, Blanks DEF TakesCatalog, Stages, Wire, Attempting
<1> QED
  BY <1>1, <1>2, <1>3, <1>4, GoesOn DEF TakesCatalog

LEMMA ConnectsTyped ==
    ASSUME TypeInv, Connects
    PROVE  TypeInv' /\ sock'.at = "upgrading"
<1>1. sock' \in Sockets /\ sock'.at = "upgrading" /\ sock'.down = <<>> /\ \A n \in Names : sock'.base[n] = None
  BY Blanks DEF Connects, Sockets
<1>2. at' \in {"pong", "first"} /\ UNCHANGED <<mode, cat, gate, rest, pub, resp>>
  BY DEF Connects
<1>3. SockTyped' /\ RespTyped' /\ WorkTyped'
  BY <1>1, <1>2, TypeParts DEF SockTyped, RespTyped, WorkTyped, Ats
<1>4. Stages' /\ Wire'
  BY <1>1, <1>2, TypeParts, Blanks DEF Connects, Stages, Wire, Attempting
<1>5. handle = "held" => pub'.cat = None
  BY <1>2, TypeParts DEF Connects, Showing
<1> QED
  BY <1>1, <1>2, <1>3, <1>4, <1>5, GoesOn DEF Connects

(* What is on its way came from a WebSocket that served.                   *)
LEMMA Opened ==
    ASSUME TypeInv, sock.down # <<>>
    PROVE  /\ sock.at \in {"serving", "gone"} /\ Message \in Messages /\ Tail(sock.down) \in Seq(Messages)
           /\ [sock EXCEPT !.down = Tail(sock.down)] \in Sockets
           /\ [sock EXCEPT !.down = Tail(sock.down)].at = sock.at
           /\ [sock EXCEPT !.down = Tail(sock.down)].down = Tail(sock.down)
           /\ [sock EXCEPT !.down = Tail(sock.down)].base = sock.base
           /\ [sock EXCEPT !.down = Tail(sock.down)].unread = sock.unread
           /\ Message.op = "data" => Message.vals \in Values
<1>1. sock.down \in Seq(Messages)
  BY HubFields DEF Sockets
<1>2. Head(sock.down) \in Messages /\ Tail(sock.down) \in Seq(Messages)
  BY <1>1
<1>3. sock.at \in {"none", "upgrading", "serving", "gone"}
  BY HubFields DEF Sockets
<1>4. NoSocket.down = <<>>
  BY DEF NoSocket
<1>5. sock.at \in {"serving", "gone"}
  BY <1>3, <1>4, TypeParts DEF Wire
<1> QED
  BY <1>1, <1>2, <1>5, HubFields DEF Sockets, Message, Messages

LEMMA AcceptsTyped ==
    ASSUME TypeInv, NEW vals \in Values
    PROVE  Accepts(vals) \in [Names -> Received \cup {None}]
<1>1. \A n \in Names : gate[n] \in Received \cup {None} /\ vals[n] \in Readings \cup {None}
  BY TypeParts DEF WorkTyped, Values
<1>2. \A n \in Names : vals[n] # None => [v |-> vals[n].v, t |-> vals[n].t, late |-> rest # None] \in Received
  BY <1>1 DEF Readings, Received
<1> QED
  BY <1>1, <1>2 DEF Accepts

LEMMA FinalizedTyped ==
    ASSUME NEW g \in [Names -> Received \cup {None}], NEW r \in Values
    PROVE  Finalized(g, r) \in Values
<1>1. \A n \in Names : g[n] # None => [v |-> g[n].v, t |-> g[n].t] \in Readings
  BY DEF Received, Readings
<1>2. \A n \in Names : r[n] \in Readings \cup {None}
  BY DEF Values
<1> QED
  BY <1>1, <1>2 DEF Finalized, Overlays, Values

LEMMA ReceivesDataTyped ==
    ASSUME TypeInv, ReceivesData
    PROVE  /\ TypeInv' /\ sock.down # <<>> /\ Message \in Messages /\ Message.op = "data" /\ Message.vals \in Values
           /\ gate' = Accepts(Message.vals) /\ sock' = [sock EXCEPT !.down = Tail(sock.down)]
           /\ at \in {"first", "values", "live"} /\ at' = (IF at = "first" THEN "values" ELSE at)
           /\ sock.at \in {"serving", "gone"} /\ UNCHANGED <<hub, reading, unsent, key, odd, twin, cat, rest, resp>>
<1>1. /\ sock.down # <<>> /\ WorkerStep /\ left' = left /\ Message.op = "data"
      /\ at \in {"first", "values", "live"} /\ at' = (IF at = "first" THEN "values" ELSE at)
      /\ gate' = Accepts(Message.vals) /\ sock' = [sock EXCEPT !.down = Tail(sock.down)]
      /\ at = "live" => pub' = [st |-> "live", cat |-> cat, vals |-> Finalized(gate', rest)]
      /\ at # "live" => pub' = pub
      /\ UNCHANGED <<mode, cat, rest, resp>>
  BY DEF ReceivesData, Receives, Publishes
<1>2. Message \in Messages /\ Message.vals \in Values /\ gate' \in [Names -> Received \cup {None}]
  BY <1>1, Opened, AcceptsTyped
<1>3. at = "live" => rest \in Values /\ cat \in Catalogs
  BY TypeParts DEF Stages, WorkTyped, Attempting
<1>4. at = "live" => Finalized(gate', rest) \in Values
  BY <1>2, <1>3, FinalizedTyped
<1>5. pub' \in Shows
  <2>1. CASE at = "live"
    BY <1>1, <1>3, <1>4, <2>1 DEF Shows
  <2>2. CASE at # "live"
    BY <1>1, <2>2, TypeParts DEF WorkTyped
  <2> QED
    BY <2>1, <2>2
<1>6. WorkTyped' /\ SockTyped' /\ RespTyped'
  BY <1>1, <1>2, <1>5, Opened, TypeParts DEF WorkTyped, SockTyped, RespTyped, Ats
<1>7. Stages' /\ Wire'
  <2>1. sock'.at = sock.at /\ sock.at \in {"serving", "gone"}
    BY <1>1, Opened
  <2> QED
    BY <1>1, <2>1, TypeParts DEF Stages, Wire, Attempting
<1>8. /\ handle = "held" => (pub'.cat # None <=> at' \in {"live", "unbound"})
      /\ handle = "held" /\ at' \in {"live", "unbound"} => pub'.cat = cat'
      /\ handle = "held" /\ at' = "live" => pub'.vals = Finalized(gate', rest')
  <2>1. CASE at = "live"
    BY <1>1, <1>3, <2>1, NoneIsNone
  <2>2. CASE at # "live"
    BY <1>1, <2>2, TypeParts DEF Showing
  <2> QED
    BY <2>1, <2>2
<1>9. Finalized(gate, rest)' = Finalized(gate', rest')
  BY DEF Finalized, Overlays
<1>10. TypeInv'
  BY <1>1, <1>6, <1>7, <1>8, <1>9, GoesOn, Zenon
<1> QED
  BY <1>1, <1>2, <1>10, Opened, WorkerHas

LEMMA ReceivesPongTyped ==
    ASSUME TypeInv, ReceivesPong
    PROVE  TypeInv' /\ at' = "recheck" /\ resp' = None
<1>1. /\ sock.down # <<>> /\ WorkerStep /\ left' = left /\ at = "pong" /\ at' = "recheck"
      /\ sock' = [sock EXCEPT !.down = Tail(sock.down)] /\ UNCHANGED <<mode, cat, gate, rest, pub, resp>>
  BY DEF ReceivesPong, Receives
<1>2. sock' \in Sockets /\ sock'.at \in {"serving", "gone"}
  BY <1>1, Opened
<1>3. WorkTyped' /\ SockTyped' /\ RespTyped'
  BY <1>1, <1>2, TypeParts DEF WorkTyped, SockTyped, RespTyped, Ats
<1>4. Stages' /\ Wire' /\ resp' = None
  BY <1>1, <1>2, TypeParts DEF Stages, Wire, Attempting
<1>5. handle = "held" => pub'.cat = None
  BY <1>1, TypeParts DEF Showing
<1> QED
  BY <1>1, <1>3, <1>4, <1>5, GoesOn

LEMMA TakesValuesTyped ==
    ASSUME TypeInv, TakesValues, Agrees(resp)
    PROVE  /\ TypeInv' /\ at = "values" /\ at' = "live" /\ rest' = resp.vals /\ resp' = None /\ Arrived
           /\ UNCHANGED <<hub, reading, unsent, key, odd, twin, mode, cat, gate, sock>>
<1>1. /\ WorkerStep /\ left' = left /\ at = "values" /\ at' = "live" /\ Arrived
      /\ rest' = resp.vals /\ resp' = None /\ pub' = [st |-> "live", cat |-> cat, vals |-> Finalized(gate, rest')]
      /\ UNCHANGED <<mode, cat, gate, sock>>
  BY DEF TakesValues, Publishes
<1>2. rest' \in Values /\ cat \in Catalogs /\ gate \in [Names -> Received \cup {None}]
  BY <1>1, TypeParts DEF RespTyped, Responses, Arrived, Stages, Attempting, WorkTyped
<1>3. Finalized(gate, rest') \in Values
  BY <1>2, FinalizedTyped
<1>4. pub' \in Shows
  BY <1>1, <1>2, <1>3 DEF Shows
<1>5. WorkTyped' /\ SockTyped' /\ RespTyped'
  BY <1>1, <1>2, <1>4, TypeParts DEF WorkTyped, SockTyped, RespTyped, Ats
<1>6. Stages' /\ Wire'
  BY <1>1, <1>2, TypeParts, NoneIsNone DEF Stages, Wire, Attempting
<1>7. Finalized(gate, rest)' = Finalized(gate, rest')
  BY <1>1 DEF Finalized, Overlays
<1>8. pub'.cat = cat /\ cat # None /\ pub'.vals = Finalized(gate, rest)'
  BY <1>1, <1>2, <1>7, NoneIsNone
<1> QED
  BY <1>1, <1>5, <1>6, <1>8, GoesOn, WorkerHas

LEMMA TakesRecheckTyped ==
    ASSUME TypeInv, TakesRecheck, Agrees(resp) /\ resp.tags = {}
    PROVE  /\ TypeInv' /\ at = "recheck" /\ at' = "unbound" /\ Arrived /\ resp' = None
           /\ cat' \in Catalogs /\ cat'.rev = resp.rev /\ cat'.tags = resp.tags /\ cat'.proc = resp.proc
           /\ UNCHANGED <<hub, reading, unsent, key, odd, twin, mode, gate, rest, sock>>
<1>1. /\ WorkerStep /\ left' = left /\ at = "recheck" /\ at' = "unbound" /\ Arrived
      /\ cat' = [cat EXCEPT !.tags = resp.tags, !.proc = resp.proc]
      /\ resp' = None /\ pub' = [st |-> "unbound", cat |-> cat', vals |-> None]
      /\ UNCHANGED <<mode, gate, rest, sock>>
  BY DEF TakesRecheck
<1>2. cat \in Catalogs /\ resp.tags \in SUBSET Names /\ resp.proc \in Nat /\ resp.rev = cat.rev
  BY <1>1, TypeParts DEF RespTyped, Responses, Arrived, Stages, Attempting, WorkTyped, Agrees
<1>3. cat' \in Catalogs /\ cat'.rev = resp.rev /\ cat'.tags = resp.tags /\ cat'.proc = resp.proc
  BY <1>1, <1>2 DEF Catalogs
<1>4. pub' \in Shows
  BY <1>1, <1>3 DEF Shows
<1>5. WorkTyped' /\ SockTyped' /\ RespTyped'
  BY <1>1, <1>3, <1>4, TypeParts DEF WorkTyped, SockTyped, RespTyped, Ats
<1>6. Stages' /\ Wire'
  BY <1>1, <1>3, TypeParts, NoneIsNone DEF Stages, Wire, Attempting
<1>7. pub'.cat = cat' /\ cat' # None
  BY <1>1, <1>3, NoneIsNone
<1> QED
  BY <1>1, <1>3, <1>5, <1>6, <1>7, GoesOn, WorkerHas

(* The handle.                                                             *)
LEMMA HandleTypedStep ==
    ASSUME TypeInv, StopRequested \/ ShutdownReturns \/ RestartReturns \/ Drop
    PROVE  /\ TypeInv'
           /\ UNCHANGED <<hub, reading, unsent, odd, twin, cat, gate, rest, sock, resp>>
           /\ at' = at \/ (at = "ended" /\ at' = "catalog")
<1>1. left' = left \/ Spend
  BY DEF StopRequested, ShutdownReturns, RestartReturns, Drop
<1>2. UNCHANGED <<hub, reading, unsent, odd, twin, cat, gate, rest, sock, resp>>
  BY DEF StopRequested, ShutdownReturns, RestartReturns, Drop, HandleStep, hubVars
<1>3. left' \in 0..Disturbances /\ key' \in BOOLEAN
  BY <1>1, HubFields, SpendTyped, TypeParts DEF HubTyped, StopRequested, ShutdownReturns, RestartReturns, Drop, HandleStep, hubVars
<1>4. HubTyped' /\ SockTyped' /\ RespTyped'
  BY <1>2, <1>3, TypeParts DEF HubTyped, SockTyped, RespTyped
<1>5. (at' = at /\ mode' = mode) \/ (at = "ended" /\ at' = "catalog" /\ mode' = 0)
  BY DEF StopRequested, ShutdownReturns, RestartReturns, Drop, HandleStep
<1>6. pub' \in Shows
  BY Blanks, TypeParts DEF StopRequested, ShutdownReturns, RestartReturns, Drop, HandleStep, WorkTyped
<1>7. WorkTyped'
  BY <1>2, <1>5, <1>6, TypeParts, NoneIsNone DEF WorkTyped, Ats
<1>8. HandleTyped' /\ (stop' = "no" <=> handle' = "held")
  BY TypeParts DEF StopRequested, ShutdownReturns, RestartReturns, Drop, Signal, HandleTyped, Shown
<1>9. Stages' /\ Wire'
  BY <1>2, <1>5, TypeParts DEF Stages, Wire, Attempting
<1>10. handle' = "held" => at' = "catalog" /\ pub'.cat = None
  BY Blanks DEF StopRequested, ShutdownReturns, RestartReturns, Drop
<1> QED
  BY <1>2, <1>4, <1>5, <1>7, <1>8, <1>9, <1>10, TypeParts DEF Showing, Shown

LEMMA TypeInit ==
    ASSUME Init
    PROVE  TypeInv
<1>1. (CHOOSE v \in Contents : TRUE) \in Contents
  BY ClientAssumption DEF ClientAssumption
<1>2. reading \in [Names -> Readings]
  <2>1. [v |-> CHOOSE v \in Contents : TRUE, t |-> 1] \in Readings
    BY <1>1 DEF Readings
  <2> QED
    BY <2>1 DEF Init
<1>3. hub \in Hubs
  <2> DEFINE Yes == {TRUE}
  <2>1. hub \in [proc: {1}, rev: {1}, tags: SUBSET Names, on: Yes, runs: {1}]
    BY DEF Init
  <2>2. Yes \subseteq BOOLEAN
    BY Zenon
  <2> HIDE DEF Yes
  <2> QED
    BY <2>1, <2>2 DEF Hubs
<1>5. HubTyped
  <2>1. left \in 0..Disturbances
    BY NoneIsNone DEF Init
  <2>2. unsent \in BOOLEAN /\ key \in BOOLEAN /\ odd \in BOOLEAN /\ twin \in BOOLEAN
    BY Zenon DEF Init
  <2> QED
    BY <1>2, <1>3, <2>1, <2>2, Zenon DEF HubTyped
<1>6. SockTyped /\ RespTyped
  BY Blanks DEF Init, SockTyped, RespTyped
<1>7. WorkTyped
  BY Blanks, NoneIsNone DEF Init, WorkTyped, Ats
<1>8. HandleTyped
  BY DEF Init, HandleTyped
<1>4. Showing /\ Stages /\ Wire /\ Shown
  BY Blanks DEF Init, Showing, Stages, Wire, Shown, Attempting
<1> QED
  BY <1>4, <1>5, <1>6, <1>7, <1>8, TypeParts

(* A step is one of these.                                                 *)
LeavingStep ==
    \/ ReceivesChange \/ ReceivesEnd \/ PongLate \/ RequestRefused \/ RequestFails \/ ConnectRefused
    \/ SeesStop \/ Aborted \/ (TakesValues /\ ~Agrees(resp)) \/ (TakesRecheck /\ ~(Agrees(resp) /\ resp.tags = {}))
HubStep == Commit \/ SendRevision \/ StartOrStop \/ (\E n \in Names : NewReading(n)) \/ RestartHub \/ Revoke \/ ReadMap \/ Answer
SocketSteps == Registers \/ Subscribes \/ Pongs \/ Evaluates \/ Notifies \/ Revalidates \/ Breaks
OngoingStep == \/ BackoffElapses \/ TakesCatalog \/ Connects \/ ReceivesData \/ ReceivesPong
               \/ (TakesValues /\ Agrees(resp)) \/ (TakesRecheck /\ Agrees(resp) /\ resp.tags = {})
HandleSteps == StopRequested \/ ShutdownReturns \/ RestartReturns \/ Drop
LEMMA Cases ==
    ASSUME [Next]_vars
    PROVE  HubStep \/ SocketSteps \/ OngoingStep \/ LeavingStep \/ HandleSteps \/ UNCHANGED vars
BY DEF Next, HubWorks, SocketWorks, WorkerWorks, HandleWorks, Environment, HubStep, SocketSteps, OngoingStep,
       LeavingStep, HandleSteps

LEMMA TypeStep ==
    ASSUME TypeInv, [Next]_vars
    PROVE  TypeInv'
<1>1. CASE HubStep
  BY <1>1, CommitTyped, SendRevisionTyped, StartOrStopTyped, NewReadingTyped, RestartHubTyped, RevokeTyped,
     ReadMapTyped, AnswerTyped DEF HubStep
<1>2. CASE SocketSteps
  BY <1>2, RegistersTyped, SubscribesTyped, PongsTyped, EvaluatesTyped, NotifiesTyped, EndsTyped DEF SocketSteps
<1>3. CASE OngoingStep
  BY <1>3, BackoffElapsesTyped, TakesCatalogTyped, ConnectsTyped, ReceivesDataTyped, ReceivesPongTyped,
     TakesValuesTyped, TakesRecheckTyped DEF OngoingStep
<1>4. CASE LeavingStep
  BY <1>4, Leaving, LeavesTyped DEF LeavingStep
<1>5. CASE HandleSteps
  BY <1>5, HandleTypedStep DEF HandleSteps
<1>6. CASE UNCHANGED vars
  BY <1>6, TypeParts DEF vars, workVars, hubVars, HubTyped, SockTyped, RespTyped, WorkTyped, HandleTyped, Showing,
                         Stages, Attempting, Wire, Shown, Finalized, Overlays
<1> QED
  BY <1>1, <1>2, <1>3, <1>4, <1>5, <1>6, Cases

(* The types of the Hub, the WebSocket, the worker and the handle; as long *)
(* as its handle is held, exactly a worker that is Live or Unbound shows a *)
(* snapshot.                                                               *)
THEOREM TypeCorrect == Spec => []TypeOK
<1>1. Init => TypeInv
  BY TypeInit
<1>2. TypeInv /\ [Next]_vars => TypeInv'
  BY TypeStep
<1>3. TypeInv => TypeOK
  BY DEF TypeInv
<1> QED
  BY <1>1, <1>2, <1>3, PTL DEF Spec

-----------------------------------------------------------------------------
(* The notice of a commit. *)

LEMMA CatFields ==
    ASSUME TypeInv
    PROVE  /\ cat # None => cat \in Catalogs /\ cat.proc \in Nat /\ cat.rev \in Nat /\ cat.tags \subseteq Names
           /\ Answering => resp.proc \in Nat /\ resp.rev \in Nat /\ resp.tags \subseteq Names
           /\ Answering => at \in {"catalog", "values", "recheck"}
           /\ Arrived => Answering /\ resp.run \in Nat /\ resp.vals \in Values
           /\ hub.proc \in Nat /\ hub.rev \in Nat
<1>1. cat # None => cat \in Catalogs /\ cat.proc \in Nat /\ cat.rev \in Nat /\ cat.tags \subseteq Names
  BY TypeParts DEF WorkTyped, Catalogs
<1>2. Answering => resp.proc \in Nat /\ resp.rev \in Nat /\ resp.tags \subseteq Names
  BY TypeParts DEF Answering, RespTyped, Responses
<1>3. Answering => at \in {"catalog", "values", "recheck"}
  BY TypeParts DEF Answering, Stages
<1>4. Arrived => Answering /\ resp.run \in Nat /\ resp.vals \in Values
  BY TypeParts DEF Arrived, Answering, RespTyped, Responses
<1> QED
  BY <1>1, <1>2, <1>3, <1>4, HubFields

(* Nothing that the Hub read changes: the same answer, the same catalog.   *)
LEMMA NewsRest ==
    ASSUME NewsInv, TypeInv', hub'.proc = hub.proc, hub'.rev = hub.rev, hub'.tags = hub.tags,
           UNCHANGED <<cat, resp, twin>>,
           \/ at' = at /\ (at \in {"values", "recheck", "live", "unbound"} /\ Announced => Announced')
           \/ at' \notin {"values", "recheck", "live", "unbound"}
           \/ at' \in {"values", "recheck"} /\ resp = None
    PROVE  NewsInv'
<1>1. Revisions'
  BY DEF NewsInv, Revisions, Past, Answering, Agrees
<1>2. Told'
  BY DEF NewsInv, Told, Replaced, Answering
<1> QED
  BY <1>1, <1>2 DEF NewsInv

(* A message more, or the end: what was announced is.                      *)
LEMMA AnnouncedOn ==
    ASSUME TypeInv, NEW s, NEW m, sock.at = "serving", s \in Sockets, s.at = "serving", s.down = sock.down,
           (s.unread = sock.unread) \/ m.op = "config_changed",
           Sends(s, m), unsent' = unsent
    PROVE  Announced => Announced'
<1>1. \/ sock' = [s EXCEPT !.down = Append(s.down, m)]
      \/ sock'.at = "gone"
  BY EnqueueGives DEF Sends
<1>2. CASE sock' = [s EXCEPT !.down = Append(s.down, m)]
  <2>1. sock'.down = Append(sock.down, m) /\ sock'.unread = s.unread /\ sock.down \in Seq(Messages)
    BY <1>2, HubFields DEF Sockets
  <2>2. Len(sock.down) + 1 \in DOMAIN sock'.down /\ sock'.down[Len(sock.down) + 1] = m
        /\ \A i \in DOMAIN sock.down : i \in DOMAIN sock'.down /\ sock'.down[i] = sock.down[i]
    BY <2>1
  <2>4. CASE m.op = "config_changed"
    BY <2>2, <2>4 DEF Announced
  <2>5. CASE sock'.unread = sock.unread
    <3>1. (\E i \in DOMAIN sock.down : sock.down[i].op = "config_changed")
          => \E i \in DOMAIN sock'.down : sock'.down[i].op = "config_changed"
      BY <2>2
    <3> QED
      BY <2>5, <3>1, Zenon DEF Announced
  <2> QED
    BY <2>1, <2>4, <2>5
<1>3. CASE sock'.at = "gone"
  BY <1>3 DEF Announced
<1> QED
  BY <1>1, <1>2, <1>3

(* What a commit leaves behind is announced.                               *)
LEMMA NewsCommit ==
    ASSUME NewsInv, Commit
    PROVE  NewsInv'
<1>1. TypeInv' /\ UNCHANGED <<cat, resp, twin>>
  BY CommitTyped DEF NewsInv, Commit, workVars
<1>2. PICK tags \in SUBSET Names : hub' = [hub EXCEPT !.rev = @ + 1, !.tags = tags]
  BY DEF Commit
<1>3. hub'.proc = hub.proc /\ hub'.rev = hub.rev + 1
  BY <1>2, TypeParts DEF NewsInv, HubTyped, Hubs
<1>4. Revisions'
  BY <1>1, <1>3, CatFields DEF NewsInv, Revisions, Past, Answering, Agrees
<1>5. Told'
  BY DEF Commit, Told, Announced
<1> QED
  BY <1>1, <1>4, <1>5 DEF NewsInv

(* A restart ends the WebSocket.                                           *)
LEMMA NewsRestart ==
    ASSUME NewsInv, RestartHub
    PROVE  NewsInv'
<1>1. TypeInv' /\ UNCHANGED <<cat, twin, at>>
  BY RestartHubTyped DEF NewsInv, RestartHub, workVars
<1>2. hub'.proc = hub.proc + 1 /\ hub.proc \in Nat
  BY HubFields DEF NewsInv, RestartHub
<1>3. resp' = resp \/ resp' = [st |-> "failed"]
  BY DEF RestartHub
<1>4. Answering' => Answering /\ resp' = resp
  BY <1>3 DEF Answering
<1>5. Revisions'
  BY <1>1, <1>2, <1>4, CatFields DEF NewsInv, Revisions, Past, Agrees, Answering
<1>6. at \in {"values", "recheck", "live", "unbound"} => sock'.at = "gone"
  BY RestartHubTyped, TypeParts DEF NewsInv, Wire
<1>7. Told'
  BY <1>1, <1>6 DEF Told, Announced
<1> QED
  BY <1>1, <1>5, <1>7 DEF NewsInv

LEMMA NewsReadMap ==
    ASSUME NewsInv, ReadMap
    PROVE  NewsInv'
<1>1. /\ TypeInv' /\ UNCHANGED <<hub, cat, twin, at>>
      /\ resp' \in {[st |-> "unauthorized"], [st |-> "failed"],
                    [st |-> "read", proc |-> hub.proc, rev |-> hub.rev, tags |-> hub.tags]}
  BY ReadMapTyped DEF NewsInv, ReadMap, workVars, hubVars
<1>2. Answering' => resp' = [st |-> "read", proc |-> hub.proc, rev |-> hub.rev, tags |-> hub.tags]
  BY <1>1 DEF Answering
<1>3. Revisions'
  BY <1>1, <1>2, CatFields DEF NewsInv, Revisions, Past, Answering
<1>4. Told'
  <2>1. at \in {"catalog", "recheck", "values"}
    BY DEF ReadMap
  <2> QED
    BY <1>1, <1>2, <2>1 DEF Told, Replaced
<1> QED
  BY <1>1, <1>3, <1>4 DEF NewsInv

LEMMA NewsAnswer ==
    ASSUME NewsInv, Answer
    PROVE  NewsInv'
<1>1. /\ TypeInv' /\ UNCHANGED <<hub, cat, at, sock, unsent>> /\ Answering
      /\ resp' = [st |-> "sent", proc |-> resp.proc, rev |-> resp.rev, tags |-> resp.tags,
                  run |-> Run, vals |-> Fetches]
  BY AnswerTyped DEF NewsInv, Answer, workVars, hubVars, Answering
<1>6. twin \/ (cat # None /\ cat.rev = resp.rev /\ cat.run = Run /\ cat.proc # resp.proc /\ cat.tags # resp.tags) => twin'
  BY Zenon DEF Answer
<1>2. Answering' /\ resp'.proc = resp.proc /\ resp'.rev = resp.rev /\ resp'.tags = resp.tags /\ resp'.run = Run
      /\ resp'.st = "sent"
  BY <1>1, NoneIsNone, AnswerTyped DEF Answering, NewsInv
<1>3. Revisions'
  BY <1>1, <1>2, <1>6, CatFields DEF NewsInv, Revisions, Past, Agrees
<1>4. Announced' <=> Announced
  BY <1>1 DEF Announced
<1>5. Told'
  BY <1>1, <1>2, <1>4, CatFields DEF NewsInv, Told, Replaced
<1> QED
  BY <1>1, <1>3, <1>5 DEF NewsInv

LEMMA NewsHub ==
    ASSUME NewsInv, HubStep
    PROVE  NewsInv'
<1>1. CASE SendRevision
  <2>1. /\ TypeInv' /\ sock'.at = sock.at /\ sock'.down = sock.down /\ sock'.unread = (sock.unread \/ sock.at = "serving")
        /\ UNCHANGED <<hub, cat, resp, twin, at>>
    BY <1>1, SendRevisionTyped DEF NewsInv, SendRevision, workVars
  <2>2. ASSUME at \in {"values", "recheck", "live", "unbound"}, Announced PROVE Announced'
    <3>1. sock.at = "serving" \/ sock.at = "gone"
      BY <2>2, TypeParts DEF NewsInv, Wire
    <3>2. CASE sock.at = "serving"
      <4>1. sock'.unread
        BY <2>1, <3>2, Zenon
      <4> QED
        BY <4>1, Zenon DEF Announced
    <3>3. CASE sock.at = "gone"
      BY <2>1, <3>3 DEF Announced
    <3> QED
      BY <3>1, <3>2, <3>3
  <2> QED
    BY <2>1, <2>2, NewsRest
<1>2. CASE StartOrStop \/ Revoke \/ \E n \in Names : NewReading(n)
  <2>1. TypeInv'
    BY <1>2, StartOrStopTyped, RevokeTyped, NewReadingTyped DEF NewsInv
  <2>2. UNCHANGED <<cat, resp, twin, at, unsent, sock>>
    BY <1>2 DEF StartOrStop, Revoke, NewReading, workVars
  <2>3. hub'.proc = hub.proc /\ hub'.rev = hub.rev /\ hub'.tags = hub.tags
    BY <1>2, HubFields DEF NewsInv, StartOrStop, Revoke, NewReading
  <2>4. Announced => Announced'
    BY <2>2 DEF Announced
  <2> QED
    BY <2>1, <2>2, <2>3, <2>4, NewsRest
<1> QED
  BY <1>1, <1>2, NewsCommit, NewsRestart, NewsReadMap, NewsAnswer DEF HubStep

LEMMA NewsSocket ==
    ASSUME NewsInv, SocketSteps
    PROVE  NewsInv'
<1>0. TypeInv /\ TypeInv' /\ UNCHANGED <<hubVars, resp, workVars, twin>>
  BY RegistersTyped, SubscribesTyped, PongsTyped, EvaluatesTyped, NotifiesTyped, EndsTyped DEF NewsInv, SocketSteps
<1>1. UNCHANGED <<hub, unsent, cat, resp, twin, at>>
  BY <1>0 DEF hubVars, workVars
<1>2. ASSUME at \in {"values", "recheck", "live", "unbound"}, Announced PROVE Announced'
  <2>1. ~Registers
    BY <1>0, <1>2, RegistersTyped, TypeParts DEF Wire
  <2>2. CASE Subscribes
    <3>1. CASE \E s : Tracks(s, cat.tags) /\ s.unread = sock.unread /\ Sends(s, DataOf(cat.tags))
      BY <1>0, <1>1, <1>2, <2>2, <3>1, SubscribesTyped, AnnouncedOn DEF Tracks
    <3>2. CASE \E s : /\ s \in Sockets /\ s.at = "serving" /\ s.down = sock.down /\ s.base = sock.base
                      /\ s.unread = sock.unread /\ Sends(s, [op |-> "unknown_tag"])
      BY <1>0, <1>1, <1>2, <2>2, <3>2, SubscribesTyped, AnnouncedOn
    <3> QED
      BY <1>0, <2>2, <3>1, <3>2, SubscribesTyped
  <2>3. CASE Pongs
    BY <1>0, <1>1, <1>2, <2>3, PongsTyped, AnnouncedOn
  <2>4. CASE Notifies
    BY <1>0, <1>1, <1>2, <2>4, NotifiesTyped, AnnouncedOn
  <2>5. CASE Evaluates
    <3>1. PICK s : /\ Tracks(s, Matched) /\ s.unread = sock.unread
                   /\ \/ Differ = {} /\ sock' = s
                      \/ Differ # {} /\ Sends(s, DataOf(Differ))
      BY <1>0, <2>5, EvaluatesTyped
    <3>2. CASE sock' = s
      <4>1. sock'.down = sock.down /\ sock'.unread = sock.unread /\ sock.at = "serving"
        BY <1>0, <2>5, <3>1, <3>2, EvaluatesTyped DEF Tracks
      <4> QED
        BY <1>1, <1>2, <4>1 DEF Announced
    <3>3. CASE Sends(s, DataOf(Differ))
      BY <1>0, <1>1, <1>2, <2>5, <3>1, <3>3, EvaluatesTyped, AnnouncedOn DEF Tracks
    <3> QED
      BY <3>1, <3>2, <3>3
  <2>6. CASE Revalidates \/ Breaks
    BY <1>0, <2>6, EndsTyped DEF Announced
  <2> QED
    BY <2>1, <2>2, <2>3, <2>4, <2>5, <2>6 DEF SocketSteps
<1> QED
  BY <1>0, <1>1, <1>2, NewsRest

LEMMA NewsOngoing ==
    ASSUME NewsInv, OngoingStep
    PROVE  NewsInv'
<1>1. CASE BackoffElapses \/ Connects \/ ReceivesPong
  <2>1. TypeInv' /\ UNCHANGED <<hub, cat, resp, twin>>
    BY <1>1, BackoffElapsesTyped, ConnectsTyped, ReceivesPongTyped, WorkerHas
       DEF NewsInv, BackoffElapses, Connects, ReceivesPong, Receives
  <2>2. at' \in {"catalog", "pong", "first"} \/ (at' = "recheck" /\ resp = None)
    BY <1>1, ReceivesPongTyped DEF NewsInv, BackoffElapses, Connects, ReceivesPong
  <2> QED
    BY <2>1, <2>2, NewsRest
<1>2. CASE TakesCatalog
  <2>1. /\ TypeInv' /\ Arrived /\ UNCHANGED <<hub, twin>> /\ resp' = None /\ at' = "connect"
        /\ cat' = [rev |-> resp.rev, run |-> resp.run, tags |-> resp.tags, proc |-> resp.proc]
    BY <1>2, TakesCatalogTyped, WorkerHas DEF NewsInv, TakesCatalog
  <2>2. Past(cat)'
    BY <2>1, CatFields DEF NewsInv, Revisions, Past
  <2>3. Revisions' /\ Told'
    BY <2>1, <2>2 DEF Revisions, Told, Answering
  <2> QED
    BY <2>1, <2>3 DEF NewsInv
<1>3. CASE ReceivesData
  <2>1. /\ TypeInv' /\ UNCHANGED <<hub, cat, resp, twin, unsent>> /\ sock.down # <<>> /\ Message.op = "data"
        /\ sock' = [sock EXCEPT !.down = Tail(sock.down)] /\ (at' = at \/ (at = "first" /\ at' = "values"))
    BY <1>3, ReceivesDataTyped DEF NewsInv
  <2>2. sock'.at = sock.at /\ sock'.unread = sock.unread /\ sock'.down = Tail(sock.down) /\ sock.down \in Seq(Messages)
    BY <2>1, HubFields, Opened DEF NewsInv, Sockets
  <2>3. (\E i \in DOMAIN sock.down : sock.down[i].op = "config_changed")
        => \E i \in DOMAIN sock'.down : sock'.down[i].op = "config_changed"
    <3> SUFFICES ASSUME NEW i \in DOMAIN sock.down, sock.down[i].op = "config_changed"
                 PROVE  \E j \in DOMAIN sock'.down : sock'.down[j].op = "config_changed"
      OBVIOUS
    <3>1. i # 1 /\ i \in 1..Len(sock.down)
      BY <2>1, <2>2 DEF Message
    <3>2. i - 1 \in DOMAIN Tail(sock.down) /\ Tail(sock.down)[i - 1] = sock.down[i]
      BY <2>1, <2>2, <3>1
    <3> QED
      BY <2>2, <3>2
  <2>4. Announced => Announced'
    BY <2>1, <2>2, <2>3, Zenon DEF Announced
  <2>5. at = "first" => resp = None
    BY TypeParts DEF NewsInv, Stages
  <2> QED
    BY <2>1, <2>4, <2>5, NewsRest
<1>4. CASE TakesValues /\ Agrees(resp)
  <2>1. /\ TypeInv' /\ at = "values" /\ at' = "live" /\ resp' = None /\ Arrived /\ Agrees(resp)
        /\ UNCHANGED <<hub, unsent, twin, cat, sock>>
    BY <1>4, TakesValuesTyped DEF NewsInv
  <2>2. Answering /\ ~Answering' /\ resp.st = "sent" /\ cat # None /\ (Announced => Announced')
    BY <2>1, CatFields, TypeParts DEF NewsInv, Answering, Stages, Attempting, Announced, Arrived
  <2>3. cat.tags # resp.tags => twin
    BY <2>1, <2>2 DEF NewsInv, Revisions
  <2>4. cat.rev = resp.rev
    BY <2>1 DEF Agrees
  <2>5. Revisions'
    BY <2>1, <2>2 DEF NewsInv, Revisions, Past
  <2>6. Told'
    BY <2>1, <2>2, <2>3, <2>4 DEF NewsInv, Told, Replaced
  <2> QED
    BY <2>1, <2>5, <2>6 DEF NewsInv
<1>5. CASE TakesRecheck /\ Agrees(resp) /\ resp.tags = {}
  <2>1. /\ TypeInv' /\ at = "recheck" /\ at' = "unbound" /\ resp' = None /\ Arrived
        /\ cat'.rev = resp.rev /\ cat'.tags = resp.tags /\ cat'.proc = resp.proc
        /\ UNCHANGED <<hub, unsent, twin, sock>>
    BY <1>5, TakesRecheckTyped DEF NewsInv
  <2>2. Answering /\ ~Answering' /\ (Announced => Announced')
    BY <2>1, CatFields DEF NewsInv, Answering, Announced
  <2>3. Revisions'
    BY <2>1, <2>2 DEF NewsInv, Revisions, Past
  <2>4. Told'
    BY <2>1, <2>2 DEF NewsInv, Told, Replaced
  <2> QED
    BY <2>1, <2>3, <2>4 DEF NewsInv
<1> QED
  BY <1>1, <1>2, <1>3, <1>4, <1>5 DEF OngoingStep

LEMMA NewsStep ==
    ASSUME NewsInv, [Next]_vars
    PROVE  NewsInv'
<1>0. TypeInv /\ TypeInv'
  BY TypeStep DEF NewsInv
<1>1. CASE LeavingStep
  <2>1. Leaves
    BY <1>0, <1>1, Leaving DEF LeavingStep
  <2>2. cat' = None /\ resp' = None /\ at' \in {"catalog", "backoff", "ended"}
    BY <2>1 DEF Leaves, Ended
  <2>3. Revisions' /\ Told'
    BY <2>2 DEF Revisions, Told, Answering
  <2> QED
    BY <1>0, <2>3 DEF NewsInv
<1>2. CASE HandleSteps
  <2>1. /\ UNCHANGED <<hub, cat, resp, twin, unsent, sock>> /\ (at' = at \/ at' = "catalog")
    BY <1>0, <1>2, HandleTypedStep DEF HandleSteps
  <2>2. Announced => Announced'
    BY <2>1 DEF Announced
  <2> QED
    BY <1>0, <2>1, <2>2, NewsRest
<1>3. CASE UNCHANGED vars
  <2>1. UNCHANGED <<hub, cat, resp, twin, unsent, sock, at>>
    BY <1>3 DEF vars, hubVars, workVars
  <2>2. Announced => Announced'
    BY <2>1 DEF Announced
  <2> QED
    BY <1>0, <2>1, <2>2, NewsRest
<1> QED
  BY <1>1, <1>2, <1>3, NewsHub, NewsSocket, NewsOngoing, Cases

(* Whoever is shown a catalog that the Hub has replaced will be told of it. *)
THEOREM NewsComes == Spec => []NewsOnItsWay
<1>1. Init => NewsInv
  BY TypeInit DEF Init, NewsInv, Revisions, Told, Answering
<1>2. NewsInv /\ [Next]_vars => NewsInv'
  BY NewsStep
<1>3. NewsInv => NewsOnItsWay
  <2> SUFFICES ASSUME NewsInv, stop = "no", at \in {"live", "unbound"}, Outdated, ~twin
               PROVE  Announced
    BY DEF NewsOnItsWay, Announced
  <2>1. pub.cat = cat
    BY TypeParts DEF NewsInv, Shown
  <2>2. Replaced(cat)
    BY <2>1 DEF Outdated, Replaced
  <2> QED
    BY <2>2 DEF NewsInv, Told
<1> QED
  BY <1>1, <1>2, <1>3, PTL DEF Spec

-----------------------------------------------------------------------------
(* The values of a name. *)

LEMMA ItemTypes ==
    ASSUME TypeInv, NEW n \in Names
    PROVE  /\ reading[n] \in Readings /\ reading[n].t \in Nat /\ reading[n].v \in Contents
           /\ gate[n] # None => gate[n] \in Received /\ gate[n].t \in Nat /\ gate[n].v \in Contents
           /\ sock.down \in Seq(Messages) /\ Coming(n) \subseteq 1..Len(sock.down) /\ Coming(n) \subseteq Nat
           /\ \A i \in Coming(n) : Data(i, n) \in Readings /\ Data(i, n).t \in Nat /\ Data(i, n).v \in Contents
           /\ Fetched(n) # None => Fetched(n) \in Readings /\ Fetched(n).t \in Nat /\ Fetched(n).v \in Contents
           /\ Coming(n) # {} => sock.at # "none"
<1>1. /\ reading[n] \in Readings /\ reading[n].t \in Nat /\ reading[n].v \in Contents /\ sock.down \in Seq(Messages)
  BY HubFields DEF Sockets
<1>2. gate[n] # None => gate[n] \in Received /\ gate[n].t \in Nat /\ gate[n].v \in Contents
  BY TypeParts DEF WorkTyped, Received
<1>3. Coming(n) \subseteq 1..Len(sock.down) /\ Coming(n) \subseteq Nat
  BY <1>1 DEF Coming
<1>4. ASSUME NEW i \in Coming(n)
      PROVE  Data(i, n) \in Readings /\ Data(i, n).t \in Nat /\ Data(i, n).v \in Contents
  <2>1. sock.down[i] \in Messages /\ sock.down[i].op = "data" /\ sock.down[i].vals[n] # None
    BY <1>1 DEF Coming
  <2>2. sock.down[i].vals \in Values
    BY <2>1 DEF Messages
  <2> QED
    BY <2>1, <2>2 DEF Values, Readings, Data
<1>5. Fetched(n) \in Readings \cup {None}
  <2>1. at = "values" /\ resp # None /\ resp.st = "sent" => resp.vals \in Values
    BY CatFields DEF Arrived
  <2>2. rest # None => rest \in Values
    BY TypeParts DEF WorkTyped
  <2> QED
    BY <2>1, <2>2 DEF Fetched, Values
<1>6. Fetched(n) # None => Fetched(n) \in Readings /\ Fetched(n).t \in Nat /\ Fetched(n).v \in Contents
  BY <1>5 DEF Readings
<1>7. Coming(n) # {} => sock.at # "none"
  BY <1>3, TypeParts, Blanks DEF Wire
<1> QED
  BY <1>1, <1>2, <1>3, <1>4, <1>6, <1>7

LEMMA SentIs ==
    ASSUME NEW n
    PROVE  /\ \A m : m \in Sent(n) <=> (m = gate[n] /\ gate[n] # None) \/ \E i \in Coming(n) : m = Data(i, n)
           /\ \A m : m \in Sent(n)' <=> (m = gate'[n] /\ gate'[n] # None) \/ \E i \in Coming(n)' : m = Data(i, n)'
BY DEF Sent, Data

(* What is on its way of a name does not change.                           *)
LEMMA SameLine ==
    ASSUME sock'.down = sock.down, NEW n
    PROVE  Coming(n)' = Coming(n) /\ \A i \in Coming(n) : Data(i, n)' = Data(i, n)
BY DEF Coming, Data

(* The WebSocket brings nothing of a name, and its reading stays.          *)
LEMMA SameValues ==
    ASSUME TypeInv, NEW n \in Names, ValuesOf(n),
           Coming(n)' = Coming(n), \A i \in Coming(n) : Data(i, n)' = Data(i, n),
           gate'[n] = gate[n], reading'[n] = reading[n], odd => odd',
           Fetched(n)' \in {None, Fetched(n)},
           sock'.at = "serving" => \/ sock'.base[n] = None
                                   \/ sock.at = "serving" /\ sock'.base[n] = sock.base[n]
    PROVE  ValuesOf(n)'
<1>2. Sent(n)' = Sent(n)
  <2>1. \A m : m \in Sent(n)' <=> m \in Sent(n)
    BY SentIs
  <2> QED
    BY <2>1
<1>3. InTime(n)'
  BY <1>2 DEF ValuesOf, InTime
<1>4. OneContent(n)'
  BY <1>2 DEF ValuesOf, OneContent
<1>5. LastSent(n)'
  BY DEF ValuesOf, LastSent
<1>6. FetchedLater(n)'
  BY <1>2, HubFields, NoneIsNone DEF ValuesOf, FetchedLater
<1> QED
  BY <1>3, <1>4, <1>5, <1>6 DEF ValuesOf

(* A message that is sent comes last.                                      *)
Brings(m, n) == m.op = "data" /\ m.vals[n] # None
LEMMA LineGrows ==
    ASSUME TypeInv, NEW n \in Names, NEW m, m \in Messages, sock'.down = Append(sock.down, m)
    PROVE  /\ \A i \in Coming(n) : i <= Len(sock.down) /\ i \in Coming(n)' /\ Data(i, n)' = Data(i, n)
           /\ ~Brings(m, n) => Coming(n)' = Coming(n)
           /\ Brings(m, n) => /\ Coming(n)' = Coming(n) \cup {Len(sock.down) + 1}
                              /\ \A i : i = Len(sock.down) + 1 => Data(i, n)' = m.vals[n]
           /\ Len(sock.down) \in Nat
<1> DEFINE d == sock.down
           e == sock'.down
<1>1. d \in Seq(Messages)
  BY ItemTypes
<1>2. /\ Len(d) \in Nat /\ DOMAIN d = 1..Len(d) /\ DOMAIN e = 1..(Len(d) + 1)
      /\ e[Len(d) + 1] = m /\ \A i \in 1..Len(d) : e[i] = d[i]
  BY <1>1
<1>3. /\ \A i : i \in Coming(n) <=> i \in DOMAIN d /\ Brings(d[i], n)
      /\ \A i : i \in Coming(n)' <=> i \in DOMAIN e /\ Brings(e[i], n)
      /\ \A i : Data(i, n) = d[i].vals[n] /\ Data(i, n)' = e[i].vals[n]
  BY DEF Coming, Brings, Data
<1> HIDE DEF d, e
<1>4. \A i \in Coming(n) : i <= Len(d) /\ i \in Coming(n)' /\ Data(i, n)' = Data(i, n)
  BY <1>2, <1>3
<1>7. \A i : i \in Coming(n)' <=> i \in Coming(n) \/ (i = Len(d) + 1 /\ Brings(m, n))
  <2>1. \A i : i \in DOMAIN e <=> i \in DOMAIN d \/ i = Len(d) + 1
    BY <1>2
  <2>2. Len(d) + 1 \notin DOMAIN d
    BY <1>2
  <2> QED
    BY <1>2, <1>3, <2>1, <2>2
<1>5. ~Brings(m, n) => Coming(n)' = Coming(n)
  BY <1>7
<1>6. Brings(m, n) => /\ Coming(n)' = Coming(n) \cup {Len(d) + 1}
                        /\ \A i : i = Len(d) + 1 => Data(i, n)' = m.vals[n]
  <2>1. Brings(m, n) => \A i : i \in Coming(n)' <=> i \in Coming(n) \cup {Len(d) + 1}
    BY <1>7
  <2>2. \A i : i = Len(d) + 1 => Data(i, n)' = m.vals[n]
    BY <1>2, <1>3
  <2> QED
    BY <2>1, <2>2
<1> QED
  BY <1>2, <1>4, <1>5, <1>6 DEF d

LEMMA SendsValues ==
    ASSUME TypeInv, NEW n \in Names, ValuesOf(n), NEW m, m \in Messages,
           sock.at = "serving", sock'.down = Append(sock.down, m),
           gate'[n] = gate[n], reading'[n] = reading[n], odd' = odd, Fetched(n)' = Fetched(n),
           \/ Brings(m, n) /\ m.vals[n] = reading[n] /\ sock'.base[n] = reading[n].v
           \/ ~Brings(m, n) /\ sock'.base[n] \in {None, sock.base[n]}
    PROVE  ValuesOf(n)'
<1>1. CASE ~Brings(m, n)
  <2>1. Coming(n)' = Coming(n) /\ \A i \in Coming(n) : Data(i, n)' = Data(i, n)
    BY <1>1, LineGrows
  <2> QED
    BY <1>1, <2>1, SameValues
<1>2. CASE Brings(m, n)
  <2>0. PICK k \in Nat : k = Len(sock.down) + 1
    BY LineGrows
  <2>1. /\ Coming(n)' = Coming(n) \cup {k} /\ Data(k, n)' = reading[n] /\ k \in Nat
        /\ \A i \in Coming(n) : Data(i, n)' = Data(i, n) /\ i < k /\ i \in Nat
    BY <1>2, <2>0, LineGrows, ItemTypes
  <2>2. \A x : x \in Sent(n)' <=> x \in Sent(n) \/ x = reading[n]
    BY <2>1, SentIs
  <2>3. \A x \in Sent(n) : x.t \in Nat
    BY SentIs, ItemTypes
  <2>4. InTime(n)'
    <3>1. \A x \in Sent(n)' : x.t <= reading[n].t
      BY <2>2, ItemTypes DEF ValuesOf, InTime
    <3>2. \A i, j \in Coming(n)' : i < j => Data(i, n)'.t <= Data(j, n)'.t
      <4> SUFFICES ASSUME NEW i \in Coming(n)', NEW j \in Coming(n)', i < j
                   PROVE  Data(i, n)'.t <= Data(j, n)'.t
        OBVIOUS
      <4>1. i \in Coming(n)
        BY <2>1
      <4>2. CASE j = k
        <5>1. Data(i, n) \in Sent(n)
          BY <4>1, SentIs, ItemTypes, NoneIsNone
        <5> QED
          BY <2>1, <4>1, <4>2, <5>1 DEF ValuesOf, InTime
      <4>3. CASE j \in Coming(n)
        BY <2>1, <4>1, <4>3 DEF ValuesOf, InTime
      <4> QED
        BY <2>1, <4>2, <4>3
    <3>3. gate[n] # None => \A i \in Coming(n)' : gate[n].t <= Data(i, n)'.t
      <4>1. gate[n] # None => gate[n].t <= reading[n].t
        BY SentIs DEF ValuesOf, InTime
      <4> QED
        BY <2>1, <4>1 DEF ValuesOf, InTime
    <3> QED
      BY <3>1, <3>2, <3>3 DEF ValuesOf, InTime
  <2>5. OneContent(n)'
    BY <2>2 DEF ValuesOf, OneContent
  <2>6. LastSent(n)'
    <3>1. \A i \in Coming(n)' : (\A j \in Coming(n)' : j <= i) => i = k
      BY <2>1
    <3> QED
      BY <1>2, <2>1, <3>1 DEF LastSent
  <2>7. FetchedLater(n)'
    <3>1. reading[n] \in Sent(n)'
      BY <2>2
    <3>2. Fetched(n) # None => ~(reading[n].t < Fetched(n).t)
      BY ItemTypes DEF ValuesOf, InTime
    <3> QED
      BY <3>1, <3>2 DEF FetchedLater
  <2> QED
    BY <2>4, <2>5, <2>6, <2>7 DEF ValuesOf
<1> QED
  BY <1>1, <1>2

(* The first message is taken.                                             *)
LEMMA LineShifts ==
    ASSUME TypeInv, NEW n \in Names, sock.down # <<>>, sock'.down = Tail(sock.down)
    PROVE  /\ \A i \in Nat : i \in Coming(n)' <=> i + 1 \in Coming(n) /\ i # 0
           /\ \A i \in Nat \ {0} : i + 1 \in Coming(n) => Data(i, n)' = Data(i + 1, n)
           /\ Brings(Message, n) <=> 1 \in Coming(n)
           /\ Data(1, n) = Message.vals[n]
           /\ Coming(n) \subseteq Nat \ {0} /\ Coming(n)' \subseteq Nat \ {0}
<1> DEFINE d == sock.down
           e == sock'.down
<1>1. d \in Seq(Messages) /\ d # <<>> /\ e = Tail(d)
  BY ItemTypes
<1>2. /\ Len(d) \in Nat /\ DOMAIN d = 1..Len(d) /\ DOMAIN e = 1..(Len(d) - 1) /\ Len(d) >= 1
      /\ Head(d) = d[1] /\ \A i \in 1..(Len(d) - 1) : e[i] = d[i + 1]
  BY <1>1
<1>3. /\ \A i : i \in Coming(n) <=> i \in DOMAIN d /\ Brings(d[i], n)
      /\ \A i : i \in Coming(n)' <=> i \in DOMAIN e /\ Brings(e[i], n)
      /\ \A i : Data(i, n) = d[i].vals[n] /\ Data(i, n)' = e[i].vals[n]
  BY DEF Coming, Brings, Data
<1>4. Message = Head(d)
  BY DEF Message
<1> HIDE DEF d, e
<1>5. \A i \in Nat : /\ i \in DOMAIN e <=> i + 1 \in DOMAIN d /\ i # 0
                     /\ i \in DOMAIN e => e[i] = d[i + 1]
  BY <1>2
<1>6. \A i \in Nat : i \in Coming(n)' <=> i + 1 \in Coming(n) /\ i # 0
  BY <1>3, <1>5
<1>7. \A i \in Nat \ {0} : i + 1 \in Coming(n) => Data(i, n)' = Data(i + 1, n)
  BY <1>3, <1>5
<1>8. 1 \in DOMAIN d
  BY <1>2
<1>9. Coming(n) \subseteq Nat \ {0} /\ Coming(n)' \subseteq Nat \ {0}
  BY <1>2, <1>3
<1> QED
  BY <1>2, <1>3, <1>4, <1>6, <1>7, <1>8, <1>9

LEMMA Shifted ==
    ASSUME TypeInv, NEW n \in Names, sock.down # <<>>, sock'.down = Tail(sock.down)
    PROVE  /\ \A i \in Coming(n)' : i + 1 \in Coming(n) /\ Data(i, n)' = Data(i + 1, n) /\ i \in Nat \ {0}
           /\ \A i \in Coming(n) : i = 1 \/ (i - 1 \in Coming(n)' /\ Data(i - 1, n)' = Data(i, n) /\ i - 1 \in Nat)
<1>1. ASSUME NEW i \in Coming(n)'
      PROVE  i + 1 \in Coming(n) /\ Data(i, n)' = Data(i + 1, n) /\ i \in Nat \ {0}
  <2>1. i \in Nat \ {0}
    BY LineShifts
  <2> QED
    BY <2>1, LineShifts
<1>2. ASSUME NEW i \in Coming(n), i # 1
      PROVE  i - 1 \in Coming(n)' /\ Data(i - 1, n)' = Data(i, n) /\ i - 1 \in Nat
  <2>1. i \in Nat /\ i # 0
    BY LineShifts
  <2>2. PICK j \in Nat \ {0} : i = j + 1
    BY <1>2, <2>1
  <2>3. j \in Coming(n)' /\ Data(j, n)' = Data(i, n)
    BY <2>2, LineShifts
  <2>4. i - 1 = j
    BY <2>2
  <2> QED
    BY <2>3, <2>4
<1> QED
  BY <1>1, <1>2

(* What is received comes after what was received before, so it is taken:  *)
(* the readings sent are the same but for one that another has replaced.   *)
Keeps(n) ==
    /\ \A x \in Sent(n)' : \E y \in Sent(n) : y.t = x.t /\ y.v = x.v
    /\ \A y \in Sent(n) : \E x \in Sent(n)' : y.t <= x.t
Takes ==
    \/ Message.op = "data" /\ gate' = Accepts(Message.vals)
    \/ Message.op # "data" /\ gate' = gate
LEMMA Taken ==
    ASSUME TypeInv, NEW n \in Names, ValuesOf(n), sock.down # <<>>, sock'.down = Tail(sock.down), Takes
    PROVE  /\ 1 \in Coming(n) => gate'[n] # None /\ gate'[n].t = Data(1, n).t /\ gate'[n].v = Data(1, n).v
           /\ 1 \notin Coming(n) => gate'[n] = gate[n]
<1>1. CASE 1 \in Coming(n)
  <2>1. Message.vals[n] # None /\ Message.vals[n] = Data(1, n)
    BY <1>1, LineShifts DEF Brings
  <2>2. gate[n] = None \/ Data(1, n).t >= gate[n].t
    BY <1>1, ItemTypes DEF ValuesOf, InTime
  <2>3. gate'[n] = [v |-> Data(1, n).v, t |-> Data(1, n).t, late |-> rest # None]
    BY <1>1, <2>1, <2>2, LineShifts DEF Accepts, Takes, Brings
  <2>4. Data(1, n).v \in Contents /\ Data(1, n).t \in Nat
    BY <1>1, ItemTypes
  <2>5. gate'[n] \in Received
    BY <2>3, <2>4 DEF Received
  <2> QED
    BY <1>1, <2>3, <2>5, NoneIsNone
<1>2. CASE 1 \notin Coming(n)
  BY <1>2, LineShifts DEF Accepts, Brings, Takes
<1> QED
  BY <1>1, <1>2

LEMMA TakenKeeps ==
    ASSUME TypeInv, NEW n \in Names, ValuesOf(n), sock.down # <<>>, sock'.down = Tail(sock.down),
           Takes
    PROVE  Keeps(n)
<1>1. ASSUME NEW x \in Sent(n)' PROVE \E y \in Sent(n) : y.t = x.t /\ y.v = x.v
  <2>1. CASE x = gate'[n] /\ gate'[n] # None
    <3>1. CASE 1 \in Coming(n)
      BY <2>1, <3>1, Taken, SentIs
    <3>2. CASE 1 \notin Coming(n)
      BY <2>1, <3>2, Taken, SentIs
    <3> QED
      BY <3>1, <3>2
  <2>2. CASE \E i \in Coming(n)' : x = Data(i, n)'
    BY <2>2, Shifted, SentIs
  <2> QED
    BY <1>1, <2>1, <2>2, SentIs
<1>2. ASSUME NEW y \in Sent(n) PROVE \E x \in Sent(n)' : y.t <= x.t
  <2>1. CASE y = gate[n] /\ gate[n] # None
    <3>1. CASE 1 \in Coming(n)
      <4>1. gate[n].t <= Data(1, n).t
        BY <2>1, <3>1 DEF ValuesOf, InTime
      <4> QED
        BY <2>1, <3>1, <4>1, Taken, SentIs
    <3>2. CASE 1 \notin Coming(n)
      BY <2>1, <3>2, Taken, SentIs, ItemTypes
    <3> QED
      BY <3>1, <3>2
  <2>2. CASE \E i \in Coming(n) : y = Data(i, n)
    <3>1. PICK i \in Coming(n) : y = Data(i, n)
      BY <2>2
    <3>2. y.t \in Nat
      BY <3>1, ItemTypes
    <3>3. CASE i = 1
      <4>1. gate'[n] # None /\ gate'[n].t = y.t
        BY <3>1, <3>3, Taken
      <4> QED
        BY <3>2, <4>1, SentIs
    <3>4. CASE i # 1
      BY <3>1, <3>2, <3>4, Shifted, SentIs
    <3> QED
      BY <3>3, <3>4
  <2> QED
    BY <1>2, <2>1, <2>2, SentIs
<1> QED
  BY <1>1, <1>2 DEF Keeps

LEMMA TakesValue ==
    ASSUME TypeInv, NEW n \in Names, ValuesOf(n), sock.down # <<>>, sock'.down = Tail(sock.down),
           Takes, sock'.at = sock.at, sock'.base = sock.base, reading' = reading, odd' = odd, Fetched(n)' = Fetched(n)
    PROVE  ValuesOf(n)'
<1>1. Keeps(n)
  BY TakenKeeps
<1>2. \A y \in Sent(n) : y.t \in Nat
  BY SentIs, ItemTypes
<1>3. \A x \in Sent(n)' : x.t \in Nat
  BY <1>1, <1>2 DEF Keeps
<1>4. InTime(n)'
  <2>1. \A x \in Sent(n)' : x.t <= reading[n].t
    BY <1>1 DEF Keeps, ValuesOf, InTime
  <2>2. \A i, j \in Coming(n)' : i < j => Data(i, n)'.t <= Data(j, n)'.t
    <3> SUFFICES ASSUME NEW i \in Coming(n)', NEW j \in Coming(n)', i < j
                 PROVE  Data(i, n)'.t <= Data(j, n)'.t
      OBVIOUS
    <3>1. /\ i + 1 \in Coming(n) /\ j + 1 \in Coming(n) /\ i + 1 < j + 1
          /\ Data(i, n)' = Data(i + 1, n) /\ Data(j, n)' = Data(j + 1, n)
      BY Shifted
    <3> QED
      BY <3>1 DEF ValuesOf, InTime
  <2>3. gate'[n] # None => \A i \in Coming(n)' : gate'[n].t <= Data(i, n)'.t
    <3> SUFFICES ASSUME gate'[n] # None, NEW i \in Coming(n)'
                 PROVE  gate'[n].t <= Data(i, n)'.t
      OBVIOUS
    <3>1. i + 1 \in Coming(n) /\ Data(i, n)' = Data(i + 1, n) /\ 1 < i + 1
      BY Shifted
    <3>2. CASE 1 \in Coming(n)
      BY <3>1, <3>2, Taken DEF ValuesOf, InTime
    <3>3. CASE 1 \notin Coming(n)
      BY <3>1, <3>3, Taken DEF ValuesOf, InTime
    <3> QED
      BY <3>2, <3>3
  <2> QED
    BY <2>1, <2>2, <2>3 DEF ValuesOf, InTime
<1>5. OneContent(n)'
  BY <1>1 DEF Keeps, ValuesOf, OneContent
<1>6. LastSent(n)'
  <2> SUFFICES ASSUME sock.at = "serving", sock.base[n] # None
               PROVE  /\ Coming(n)' = {} => gate'[n] # None /\ gate'[n].v = sock.base[n]
                      /\ \A i \in Coming(n)' : (\A j \in Coming(n)' : j <= i) => Data(i, n)'.v = sock.base[n]
    BY DEF LastSent
  <2>1. LastSent(n)
    BY DEF ValuesOf
  <2>2. ASSUME Coming(n)' = {} PROVE gate'[n] # None /\ gate'[n].v = sock.base[n]
    <3>1. \A i \in Coming(n) : i = 1
      BY <2>2, Shifted
    <3>2. CASE 1 \in Coming(n)
      <4>1. \A j \in Coming(n) : j <= 1
        BY <3>1
      <4>2. Data(1, n).v = sock.base[n]
        BY <2>1, <3>2, <4>1 DEF LastSent
      <4> QED
        BY <3>2, <4>2, Taken
    <3>3. CASE 1 \notin Coming(n)
      BY <2>1, <3>1, <3>3, Taken DEF LastSent
    <3> QED
      BY <3>2, <3>3
  <2>3. ASSUME NEW i \in Coming(n)', \A j \in Coming(n)' : j <= i PROVE Data(i, n)'.v = sock.base[n]
    <3>1. i + 1 \in Coming(n) /\ Data(i, n)' = Data(i + 1, n) /\ i \in Nat \ {0}
      BY Shifted
    <3>2. \A j \in Coming(n) : j <= i + 1
      <4> SUFFICES ASSUME NEW j \in Coming(n) PROVE j <= i + 1
        OBVIOUS
      <4>1. j = 1 \/ (j - 1 \in Coming(n)' /\ j - 1 \in Nat)
        BY Shifted
      <4>2. j \in Nat
        BY ItemTypes
      <4> QED
        BY <2>3, <3>1, <4>1, <4>2
    <3> QED
      BY <2>1, <3>1, <3>2 DEF LastSent
  <2> QED
    BY <2>2, <2>3
<1>7. FetchedLater(n)'
  <2> SUFFICES ASSUME sock.at = "serving", ~odd, Fetched(n) # None, sock.base[n] = reading[n].v,
                      \A x \in Sent(n)' : x.t < Fetched(n).t
               PROVE  Fetched(n).v = reading[n].v
    BY DEF FetchedLater
  <2>1. \A y \in Sent(n) : y.t < Fetched(n).t
    BY <1>1, <1>2, <1>3, ItemTypes DEF Keeps
  <2> QED
    BY <2>1 DEF ValuesOf, FetchedLater
<1> QED
  BY <1>4, <1>5, <1>6, <1>7 DEF ValuesOf

LEMMA NewReadingValues ==
    ASSUME TypeInv, NEW n0 \in Names, NewReading(n0), NEW n \in Names, ValuesOf(n)
    PROVE  ValuesOf(n)'
<1>1. PICK v \in Contents \ {reading[n0].v}, t \in {reading[n0].t, reading[n0].t + 1} :
         /\ reading' = [reading EXCEPT ![n0] = [v |-> v, t |-> t]]
         /\ odd' = (odd \/ t <= reading[n0].t \/ Untold(n0, v))
  BY DEF NewReading
<1>2. /\ sock' = sock /\ gate' = gate /\ UNCHANGED <<resp, at, rest>>
      /\ reading \in [Names -> Readings]
  BY TypeParts DEF NewReading, workVars, HubTyped
<1>3. Fetched(n)' = Fetched(n) /\ Coming(n)' = Coming(n) /\ \A i \in Coming(n) : Data(i, n)' = Data(i, n)
  BY <1>2 DEF Fetched, Coming, Data
<1>4. CASE n # n0
  <2>1. reading'[n] = reading[n]
    BY <1>1, <1>2, <1>4
  <2>2. odd => odd'
    BY <1>1, Zenon
  <2>3. sock'.at = sock.at /\ sock'.base = sock.base /\ gate'[n] = gate[n]
    BY <1>2
  <2> QED
    BY <1>3, <2>1, <2>2, <2>3, SameValues
<1>5. CASE n = n0
  <2>1. reading'[n].v = v /\ reading'[n].t = t /\ t \in Nat /\ t >= reading[n].t
    BY <1>1, <1>2, <1>5, ItemTypes
  <2>2. ~odd' => ~odd /\ ~(t <= reading[n].t) /\ ~Untold(n, v)
    BY <1>1, <1>5, Zenon
  <2>3. Sent(n)' = Sent(n)
    BY <1>2 DEF Sent, Coming
  <2>4. \A m \in Sent(n) : m.t \in Nat
    BY SentIs, ItemTypes
  <2>5. InTime(n)'
    BY <1>2, <1>3, <2>1, <2>3, <2>4, ItemTypes DEF ValuesOf, InTime
  <2>6. OneContent(n)'
    <3>1. ~odd' => t > reading[n].t /\ ~odd
      BY <2>1, <2>2, ItemTypes
    <3>2. \A m \in Sent(n) : m.t <= reading[n].t
      BY DEF ValuesOf, InTime
    <3>3. Fetched(n) # None => Fetched(n).t <= reading[n].t
      BY DEF ValuesOf, InTime
    <3> QED
      BY <1>3, <2>1, <2>3, <2>4, <3>1, <3>2, <3>3, ItemTypes DEF ValuesOf, OneContent
  <2>7. LastSent(n)'
    BY <1>2, <1>3 DEF ValuesOf, LastSent
  <2>8. FetchedLater(n)'
    BY <1>2, <1>3, <2>1, <2>2, <2>3 DEF FetchedLater, Untold
  <2> QED
    BY <2>5, <2>6, <2>7, <2>8 DEF ValuesOf
<1> QED
  BY <1>4, <1>5

(* The present reading is fetched.                                         *)
LEMMA FetchesValues ==
    ASSUME TypeInv, NEW n \in Names, ValuesOf(n), Fetched(n)' \in {None, reading[n]},
           UNCHANGED <<sock, gate, reading, odd>>
    PROVE  ValuesOf(n)'
<1>1. Coming(n)' = Coming(n) /\ (\A i \in Coming(n) : Data(i, n)' = Data(i, n)) /\ Sent(n)' = Sent(n)
  BY DEF Coming, Data, Sent
<1>2. InTime(n)'
  BY <1>1, ItemTypes DEF ValuesOf, InTime
<1>3. OneContent(n)'
  BY <1>1 DEF ValuesOf, OneContent
<1>4. LastSent(n)'
  BY <1>1 DEF ValuesOf, LastSent
<1>5. FetchedLater(n)'
  BY <1>1 DEF FetchedLater
<1> QED
  BY <1>2, <1>3, <1>4, <1>5 DEF ValuesOf

LEMMA FetchedSame ==
    ASSUME UNCHANGED <<at, resp, rest>>, NEW n
    PROVE  Fetched(n)' = Fetched(n)
BY DEF Fetched

(* A step that brings no value and takes none.                             *)
LEMMA QuietStep ==
    ASSUME ValueInv, TypeInv', AllFetched', sock'.down = sock.down, UNCHANGED <<gate, reading>>, odd => odd',
           \A n \in Names : Fetched(n)' \in {None, Fetched(n)},
           sock'.at = "serving" => \/ \A n \in Names : sock'.base[n] = None
                                   \/ sock.at = "serving" /\ sock'.base = sock.base
    PROVE  ValueInv'
<1>1. ASSUME NEW n \in Names PROVE ValuesOf(n)'
  <2>1. Coming(n)' = Coming(n) /\ \A i \in Coming(n) : Data(i, n)' = Data(i, n)
    BY SameLine
  <2>2. ValuesOf(n) /\ gate'[n] = gate[n] /\ reading'[n] = reading[n] /\ Fetched(n)' \in {None, Fetched(n)}
    BY DEF ValueInv
  <2>3. sock'.at = "serving" => \/ sock'.base[n] = None
                                \/ sock.at = "serving" /\ sock'.base[n] = sock.base[n]
    OBVIOUS
  <2> QED
    BY <2>1, <2>2, <2>3, SameValues DEF ValueInv
<1> QED
  BY <1>1 DEF ValueInv

(* No message and no value, or the attempt is over.                        *)
LEMMA Nothing ==
    ASSUME TypeInv', sock'.down = <<>>, gate' = NoGate, resp' = None, rest' = None, at' \notin {"live", "values"},
           sock'.at # "serving"
    PROVE  ValueInv'
<1>1. ASSUME NEW n \in Names PROVE ValuesOf(n)'
  <2>1. gate'[n] = None /\ Fetched(n)' = None /\ Coming(n)' = {}
    BY DEF NoGate, Fetched, Coming
  <2>2. \A m : m \notin Sent(n)'
    BY <2>1, SentIs
  <2> QED
    BY <2>1, <2>2 DEF ValuesOf, InTime, OneContent, LastSent, FetchedLater
<1> QED
  BY <1>1 DEF ValueInv, AllFetched

LEMMA AllFetchedSame ==
    ASSUME AllFetched, UNCHANGED <<at, cat, rest>>, Arrived' => resp' = resp
    PROVE  AllFetched'
BY DEF AllFetched, Arrived

LEMMA ValuesHub ==
    ASSUME ValueInv, HubStep
    PROVE  ValueInv'
<1>0. TypeInv
  BY DEF ValueInv
<1>1. CASE Commit \/ SendRevision \/ StartOrStop \/ Revoke
  <2>1. TypeInv'
    BY <1>0, <1>1, CommitTyped, SendRevisionTyped, StartOrStopTyped, RevokeTyped
  <2>2. sock'.down = sock.down /\ sock'.at = sock.at /\ sock'.base = sock.base
    BY <1>0, <1>1, SendRevisionTyped DEF Commit, StartOrStop, Revoke
  <2>3. UNCHANGED <<gate, reading, odd, at, cat, resp, rest>>
    BY <1>1 DEF Commit, SendRevision, StartOrStop, Revoke, workVars
  <2>4. AllFetched' /\ \A n \in Names : Fetched(n)' = Fetched(n)
    BY <2>3, AllFetchedSame, FetchedSame DEF ValueInv
  <2> QED
    BY <2>1, <2>2, <2>3, <2>4, QuietStep
<1>2. CASE RestartHub \/ ReadMap
  <2>1. TypeInv'
    BY <1>0, <1>2, RestartHubTyped, ReadMapTyped
  <2>2. sock'.down = sock.down /\ (sock' = sock \/ sock'.at = "gone")
    BY <1>0, <1>2, RestartHubTyped DEF ReadMap
  <2>3. UNCHANGED <<gate, reading, odd, at, cat, rest>>
    BY <1>2 DEF RestartHub, ReadMap, workVars, hubVars
  <2>4. resp' = resp \/ (~Arrived /\ ~Arrived')
    BY <1>2 DEF RestartHub, ReadMap, Arrived
  <2>5. AllFetched'
    BY <2>3, <2>4, AllFetchedSame DEF ValueInv
  <2>6. \A n \in Names : Fetched(n)' = Fetched(n)
    BY <2>3, <2>4 DEF Fetched, Arrived
  <2> QED
    BY <2>1, <2>2, <2>3, <2>5, <2>6, QuietStep
<1>3. CASE \E n0 \in Names : NewReading(n0)
  <2>1. TypeInv'
    BY <1>0, <1>3, NewReadingTyped
  <2>2. AllFetched'
    BY <1>3, AllFetchedSame DEF ValueInv, NewReading, workVars
  <2>3. \A n \in Names : ValuesOf(n)'
    BY <1>0, <1>3, NewReadingValues DEF ValueInv
  <2> QED
    BY <2>1, <2>2, <2>3 DEF ValueInv
<1>4. CASE Answer
  <2>1. /\ TypeInv' /\ UNCHANGED <<sock, gate, reading, odd, at, cat, rest>>
        /\ resp' = [st |-> "sent", proc |-> resp.proc, rev |-> resp.rev, tags |-> resp.tags,
                    run |-> Run, vals |-> Fetches]
        /\ resp' # None /\ Answering
    BY <1>0, <1>4, AnswerTyped, NoneIsNone DEF Answer, workVars, hubVars, Answering
  <2>2. at # "values" => rest = None
    BY <1>0, <2>1, TypeParts, CatFields DEF Stages
  <2>3. ASSUME NEW n \in Names PROVE Fetched(n)' \in {None, reading[n]}
    <3>1. CASE at = "values"
      <4>1. Fetched(n)' = Fetches[n]
        BY <2>1, <3>1 DEF Fetched
      <4> QED
        BY <4>1 DEF Fetches
    <3>2. CASE at # "values"
      BY <2>1, <2>2, <3>2 DEF Fetched
    <3> QED
      BY <3>1, <3>2
  <2>4. \A n \in Names : ValuesOf(n)'
    BY <1>0, <2>1, <2>3, FetchesValues DEF ValueInv
  <2>5. AllFetched'
    <3>1. at # "live"
      BY <1>0, <2>1, CatFields
    <3>2. ASSUME at = "values", NEW n \in cat.tags PROVE Fetches[n] # None
      <4>1. n \in Names
        BY <1>0, <3>2, CatFields, TypeParts DEF Stages, Attempting
      <4>2. reading[n] # None
        BY <1>0, <4>1, HubFields, NoneIsNone
      <4> QED
        BY <3>2, <4>1, <4>2 DEF Fetches
    <3> QED
      BY <2>1, <3>1, <3>2 DEF AllFetched
  <2> QED
    BY <2>1, <2>4, <2>5 DEF ValueInv
<1> QED
  BY <1>1, <1>2, <1>3, <1>4 DEF HubStep

(* What the Hub's task sends.                                              *)
LEMMA TaskSends ==
    ASSUME ValueInv, TypeInv', sock.at = "serving", NEW s, NEW m,
           s \in Sockets, s.at = "serving", s.down = sock.down, Sends(s, m), m \in Messages,
           UNCHANGED <<hubVars, resp, workVars>>,
           \A n \in Names : \/ Brings(m, n) /\ m.vals[n] = reading[n] /\ s.base[n] = reading[n].v
                            \/ ~Brings(m, n) /\ s.base[n] \in {None, sock.base[n]}
    PROVE  ValueInv'
<1>1. UNCHANGED <<gate, reading, odd, at, cat, resp, rest>>
  BY DEF hubVars, workVars
<1>2. AllFetched' /\ \A n \in Names : Fetched(n)' = Fetched(n)
  BY <1>1, AllFetchedSame, FetchedSame DEF ValueInv
<1>3. \/ sock' = [s EXCEPT !.down = Append(s.down, m)]
      \/ sock'.at = "gone" /\ sock'.down = sock.down
  BY EnqueueGives DEF Sends
<1>4. CASE sock' = [s EXCEPT !.down = Append(s.down, m)]
  <2>1. sock'.down = Append(sock.down, m) /\ sock'.base = s.base
    BY <1>4 DEF Sockets
  <2>2. \A n \in Names : ValuesOf(n)'
    BY <1>1, <1>2, <2>1, SendsValues DEF ValueInv
  <2> QED
    BY <1>2, <2>2 DEF ValueInv
<1>5. CASE sock'.at = "gone" /\ sock'.down = sock.down
  BY <1>1, <1>2, <1>5, QuietStep
<1> QED
  BY <1>3, <1>4, <1>5

LEMMA ValuesSocket ==
    ASSUME ValueInv, SocketSteps
    PROVE  ValueInv'
<1>0. TypeInv /\ TypeInv' /\ UNCHANGED <<hubVars, resp, workVars>>
  BY RegistersTyped, SubscribesTyped, PongsTyped, EvaluatesTyped, NotifiesTyped, EndsTyped DEF ValueInv, SocketSteps
<1>1. UNCHANGED <<gate, reading, odd, at, cat, resp, rest>>
  BY <1>0 DEF hubVars, workVars
<1>2. AllFetched' /\ \A n \in Names : Fetched(n)' = Fetched(n)
  BY <1>1, AllFetchedSame, FetchedSame DEF ValueInv
<1>3. \A n \in Names : reading[n] # None
  BY <1>0, HubFields, NoneIsNone
<1>4. CASE Registers
  <2>1. sock'.down = sock.down /\ sock'.base = sock.base /\ \A n \in Names : sock.base[n] = None
    BY <1>0, <1>4, RegistersTyped, HubFields, TypeParts DEF Sockets, Wire
  <2> QED
    BY <1>0, <1>1, <1>2, <2>1, QuietStep
<1>5. CASE Subscribes
  <2>0. cat.tags \in SUBSET Names /\ sock.at = "serving"
    BY <1>0, <1>5, SubscribesTyped
  <2>1. CASE \E s : Tracks(s, cat.tags) /\ s.unread = sock.unread /\ Sends(s, DataOf(cat.tags))
    <3>1. PICK s : Tracks(s, cat.tags) /\ Sends(s, DataOf(cat.tags))
      BY <2>1
    <3>2. ASSUME NEW n \in Names
          PROVE  LET m == DataOf(cat.tags)
                 IN  \/ Brings(m, n) /\ m.vals[n] = reading[n] /\ s.base[n] = reading[n].v
                     \/ ~Brings(m, n) /\ s.base[n] \in {None, sock.base[n]}
      BY <1>0, <1>3, <2>0, <3>1, DataTyped DEF Tracks, Brings
    <3> QED
      BY <1>0, <2>0, <3>1, <3>2, DataTyped, TaskSends DEF Tracks
  <2>2. CASE \E s : /\ s \in Sockets /\ s.at = "serving" /\ s.down = sock.down /\ s.base = sock.base
                    /\ s.unread = sock.unread /\ Sends(s, [op |-> "unknown_tag"])
    BY <1>0, <2>0, <2>2, TaskSends DEF Brings, Sends
  <2> QED
    BY <1>0, <1>5, <2>1, <2>2, SubscribesTyped
<1>6. CASE Pongs
  BY <1>0, <1>6, PongsTyped, TaskSends DEF Brings, Sends
<1>7. CASE Notifies
  BY <1>0, <1>7, NotifiesTyped, TaskSends DEF Brings, Sends
<1>8. CASE Evaluates
  <2>0. Matched \in SUBSET Names /\ sock.at = "serving" /\ Differ \subseteq Matched
    BY <1>0, <1>8, EvaluatesTyped DEF Differ
  <2>1. PICK s : /\ Tracks(s, Matched)
                 /\ \/ Differ = {} /\ sock' = s
                    \/ Differ # {} /\ Sends(s, DataOf(Differ))
    BY <1>0, <1>8, EvaluatesTyped
  <2>2. \A n \in Names : \/ n \in Differ /\ s.base[n] = reading[n].v
                         \/ n \notin Differ /\ s.base[n] \in {None, sock.base[n]}
    BY <1>0, <2>0, <2>1, DataTyped DEF Tracks, Differ
  <2>3. CASE Differ # {} /\ Sends(s, DataOf(Differ))
    <3>1. ASSUME NEW n \in Names
          PROVE  LET m == DataOf(Differ)
                 IN  \/ Brings(m, n) /\ m.vals[n] = reading[n] /\ s.base[n] = reading[n].v
                     \/ ~Brings(m, n) /\ s.base[n] \in {None, sock.base[n]}
      BY <1>0, <1>3, <2>0, <2>2, DataTyped DEF Brings
    <3> QED
      BY <1>0, <2>0, <2>1, <2>3, <3>1, DataTyped, TaskSends DEF Tracks
  <2>4. CASE Differ = {} /\ sock' = s
    <3>1. sock'.down = sock.down /\ sock'.at = "serving"
      BY <2>1, <2>4 DEF Tracks
    <3>2. ASSUME NEW n \in Names PROVE ValuesOf(n)'
      <4>1. sock'.base[n] \in {None, sock.base[n]}
        BY <2>2, <2>4
      <4>2. Coming(n)' = Coming(n) /\ \A i \in Coming(n) : Data(i, n)' = Data(i, n)
        BY <3>1, SameLine
      <4> QED
        BY <1>0, <1>1, <1>2, <2>0, <4>1, <4>2, SameValues DEF ValueInv
    <3> QED
      BY <1>0, <1>2, <3>2 DEF ValueInv
  <2> QED
    BY <2>1, <2>3, <2>4
<1>9. CASE Revalidates \/ Breaks
  BY <1>0, <1>1, <1>2, <1>9, EndsTyped, QuietStep
<1> QED
  BY <1>4, <1>5, <1>6, <1>7, <1>8, <1>9 DEF SocketSteps

LEMMA ValuesOngoing ==
    ASSUME ValueInv, OngoingStep
    PROVE  ValueInv'
<1>0. TypeInv
  BY DEF ValueInv
<1>1. CASE BackoffElapses \/ TakesCatalog \/ Connects
  <2>1. TypeInv'
    BY <1>0, <1>1, BackoffElapsesTyped, TakesCatalogTyped, ConnectsTyped
  <2>2. sock'.down = <<>> /\ sock'.at # "serving"
    <3>1. CASE BackoffElapses \/ TakesCatalog
      BY <1>0, <3>1, Blanks, TypeParts DEF BackoffElapses, TakesCatalog, Stages, Attempting
    <3>2. CASE Connects
      <4>1. PICK r \in {"ping", "subscribe"} : sock' = [Upgrading EXCEPT !.request = r]
        BY <3>2 DEF Connects
      <4> QED
        BY <4>1 DEF Upgrading, NoSocket
    <3> QED
      BY <1>1, <3>1, <3>2
  <2>3. gate' = NoGate /\ rest' = None /\ resp' = None /\ at' \notin {"live", "values"}
    BY <1>0, <1>1, TypeParts DEF BackoffElapses, TakesCatalog, Connects, Stages
  <2> QED
    BY <2>1, <2>2, <2>3, Nothing
<1>2. CASE ReceivesData
  <2>1. /\ TypeInv' /\ sock.down # <<>> /\ Message.op = "data" /\ gate' = Accepts(Message.vals)
        /\ sock' = [sock EXCEPT !.down = Tail(sock.down)]
        /\ at \in {"first", "values", "live"} /\ at' = (IF at = "first" THEN "values" ELSE at)
        /\ UNCHANGED <<reading, odd, cat, rest, resp>>
    BY <1>0, <1>2, ReceivesDataTyped
  <2>2. sock'.down = Tail(sock.down) /\ sock'.at = sock.at /\ sock'.base = sock.base
    BY <1>0, <2>1, Opened
  <2>3. at = "first" => resp = None /\ rest = None
    BY <1>0, TypeParts DEF Stages
  <2>4. \A n \in Names : Fetched(n)' = Fetched(n)
    BY <2>1, <2>3 DEF Fetched
  <2>5. \A n \in Names : ValuesOf(n)'
    BY <1>0, <2>1, <2>2, <2>4, TakesValue DEF ValueInv, Takes
  <2>6. AllFetched'
    BY <2>1, <2>3 DEF ValueInv, AllFetched, Arrived
  <2> QED
    BY <2>1, <2>5, <2>6 DEF ValueInv
<1>3. CASE ReceivesPong
  <2>1. /\ TypeInv' /\ at' = "recheck" /\ resp' = None /\ sock.down # <<>> /\ Message.op = "pong" /\ at = "pong"
        /\ sock' = [sock EXCEPT !.down = Tail(sock.down)] /\ UNCHANGED <<gate, rest>>
    BY <1>0, <1>3, ReceivesPongTyped DEF ReceivesPong, Receives
  <2>2. sock'.down = Tail(sock.down) /\ sock'.at = sock.at /\ sock'.base = sock.base
    BY <1>0, <2>1, Opened
  <2>3. UNCHANGED <<reading, odd>>
    BY <1>0, <1>3, WorkerHas DEF ReceivesPong, Receives
  <2>4. gate = NoGate /\ rest = None /\ resp = None
    BY <1>0, <2>1, TypeParts DEF Stages
  <2>5. \A n \in Names : Fetched(n)' = Fetched(n)
    BY <2>1, <2>4 DEF Fetched
  <2>7. \A n \in Names : ValuesOf(n)'
    BY <1>0, <2>1, <2>2, <2>3, <2>5, TakesValue DEF ValueInv, Takes
  <2>6. AllFetched'
    BY <2>1 DEF AllFetched
  <2> QED
    BY <2>1, <2>6, <2>7 DEF ValueInv
<1>4. CASE TakesValues /\ Agrees(resp)
  <2>1. /\ TypeInv' /\ at = "values" /\ at' = "live" /\ rest' = resp.vals /\ resp' = None /\ Arrived
        /\ UNCHANGED <<reading, odd, cat, gate, sock>>
    BY <1>0, <1>4, TakesValuesTyped
  <2>2. rest' # None
    BY <1>0, <2>1, CatFields, NoneIsNone
  <2>3. \A n \in Names : Fetched(n)' = Fetched(n)
    BY <2>1, <2>2 DEF Fetched, Arrived
  <2>4. AllFetched'
    BY <2>1 DEF ValueInv, AllFetched
  <2> QED
    BY <2>1, <2>3, <2>4, QuietStep
<1>5. CASE TakesRecheck /\ Agrees(resp) /\ resp.tags = {}
  <2>1. /\ TypeInv' /\ at = "recheck" /\ at' = "unbound" /\ resp' = None
        /\ UNCHANGED <<reading, odd, gate, rest, sock>>
    BY <1>0, <1>5, TakesRecheckTyped
  <2>2. \A n \in Names : Fetched(n)' = Fetched(n)
    BY <2>1 DEF Fetched
  <2>3. AllFetched'
    BY <2>1 DEF AllFetched
  <2> QED
    BY <2>1, <2>2, <2>3, QuietStep
<1> QED
  BY <1>1, <1>2, <1>3, <1>4, <1>5 DEF OngoingStep

LEMMA ValuesStep ==
    ASSUME ValueInv, [Next]_vars
    PROVE  ValueInv'
<1>0. TypeInv /\ TypeInv'
  BY TypeStep DEF ValueInv
<1>1. CASE LeavingStep
  <2>1. Leaves
    BY <1>0, <1>1, Leaving DEF LeavingStep
  <2>2. sock' = NoSocket /\ gate' = NoGate /\ rest' = None /\ resp' = None /\ at' \in {"catalog", "backoff", "ended"}
    BY <2>1 DEF Leaves, Ended
  <2> QED
    BY <1>0, <2>2, Blanks, Nothing
<1>2. CASE HandleSteps
  <2>1. /\ UNCHANGED <<reading, odd, cat, gate, rest, sock, resp>>
        /\ at' = at \/ (at = "ended" /\ at' = "catalog")
    BY <1>0, <1>2, HandleTypedStep DEF HandleSteps
  <2>2. \A n \in Names : Fetched(n)' = Fetched(n)
    BY <2>1 DEF Fetched
  <2>3. AllFetched'
    BY <2>1 DEF ValueInv, AllFetched, Arrived
  <2> QED
    BY <1>0, <2>1, <2>2, <2>3, QuietStep
<1>3. CASE UNCHANGED vars
  <2>1. UNCHANGED <<reading, odd, cat, gate, rest, sock, resp, at>>
    BY <1>3 DEF vars, hubVars, workVars
  <2>2. \A n \in Names : Fetched(n)' = Fetched(n)
    BY <2>1, FetchedSame
  <2>3. AllFetched'
    BY <2>1, AllFetchedSame DEF ValueInv
  <2> QED
    BY <1>0, <2>1, <2>2, <2>3, QuietStep
<1> QED
  BY <1>1, <1>2, <1>3, ValuesHub, ValuesSocket, ValuesOngoing, Cases

(* A bounded set of positions that is not empty has a largest one.         *)
LEMMA Largest ==
    ASSUME NEW S \in SUBSET Nat, S # {}, NEW top \in Nat, \A s \in S : s <= top
    PROVE  \E m \in S : \A s \in S : s <= m
<1> DEFINE Bounds == {n \in Nat : \A s \in S : s <= n}
<1>1. PICK m \in Bounds : \A n \in Bounds : ~(<<n, m>> \in OpToRel(<, Nat))
  <2>1. Bounds \subseteq Nat /\ Bounds # {}
    OBVIOUS
  <2> HIDE DEF Bounds
  <2> QED
    BY <2>1, NatLessThanWellFounded, WFMin
<1>2. \A n \in Bounds : m <= n
  <2>1. m \in Nat /\ Bounds \subseteq Nat
    OBVIOUS
  <2> HIDE DEF Bounds
  <2>2. \A n \in Bounds : ~(n < m)
    BY <1>1, <2>1, Zenon DEF OpToRel
  <2> QED
    BY <2>1, <2>2
<1>3. m \in S
  <2> SUFFICES ASSUME m \notin S PROVE FALSE
    OBVIOUS
  <2>1. PICK s \in S : TRUE
    OBVIOUS
  <2>2. s <= m /\ s # m /\ m - 1 \in Nat
    BY <2>1
  <2>3. m - 1 \in Bounds
    BY <2>2
  <2> QED
    BY <1>2, <2>2, <2>3
<1> QED
  BY <1>3

(* When there is no difference left, what the client holds, or is about    *)
(* to, is what the Hub has.                                                *)
LEMMA Holds ==
    ASSUME ValueInv, stop = "no", at = "live", sock.at = "serving", ~odd,
           NEW n \in pub.cat.tags, sock.base[n] = reading[n].v
    PROVE  Believed(n) = reading[n].v
<1> USE DEF ValueInv
<1>1. pub.cat = cat /\ pub.vals = Finalized(gate, rest) /\ rest # None /\ rest \in Values
  BY TypeParts DEF Shown, Stages, WorkTyped
<1>2. n \in Names
  BY <1>1, CatFields, TypeParts DEF Stages, Attempting
<1>3. rest[n] # None /\ Fetched(n) = rest[n]
  <2>1. resp = None
    BY TypeParts DEF Stages
  <2> QED
    BY <1>1, <2>1 DEF AllFetched, Fetched
<1>4. /\ InTime(n) /\ OneContent(n) /\ LastSent(n) /\ FetchedLater(n)
      /\ sock.base[n] # None
  BY <1>2, HubFields, NoneIsNone DEF ValuesOf
<1> DEFINE p == pub.vals[n]
           later == {i \in Coming(n) : sock.down[i].vals[n].t >= pub.vals[n].t}
<1>5. \/ p.v = rest[n].v /\ p.t = rest[n].t
      \/ gate[n] # None /\ p.v = gate[n].v /\ p.t = gate[n].t
  BY <1>1, <1>2, <1>3 DEF Finalized, Overlays
<1>6. p.t >= rest[n].t /\ (gate[n] # None => p.t >= gate[n].t) /\ p.t \in Nat
  <2>1. rest[n].t \in Nat /\ (gate[n] # None => gate[n].t \in Nat)
    BY <1>2, <1>3, ItemTypes
  <2> QED
    BY <1>1, <1>2, <1>3, <2>1 DEF Finalized, Overlays
<1>7. \A i \in Coming(n) : Data(i, n).t \in Nat
  BY <1>2, ItemTypes
<1> HIDE DEF p, later
<1>8. CASE later = {}
  <2>1. Believed(n) = p.v
    BY <1>8 DEF Believed, later, p
  <2>2. \A i \in Coming(n) : Data(i, n).t < p.t
    BY <1>6, <1>7, <1>8 DEF later, p, Data
  <2>3. CASE p.t = rest[n].t /\ p.v = rest[n].v
    <3>1. CASE \A m \in Sent(n) : m.t < rest[n].t
      BY <1>3, <1>4, <2>1, <2>3, <3>1 DEF FetchedLater
    <3>2. CASE ~\A m \in Sent(n) : m.t < rest[n].t
      <4>1. PICK m \in Sent(n) : ~(m.t < rest[n].t)
        BY <3>2
      <4>2. m = gate[n] /\ gate[n] # None /\ gate[n].t = rest[n].t
        <5>1. m = gate[n] /\ gate[n] # None
          BY <2>2, <2>3, <4>1, SentIs
        <5>2. gate[n].t \in Nat /\ rest[n].t \in Nat
          BY <1>2, <1>3, <5>1, ItemTypes
        <5> QED
          BY <1>6, <2>3, <4>1, <5>1, <5>2
      <4>3. rest[n].v = gate[n].v
        BY <1>3, <1>4, <4>1, <4>2 DEF OneContent
      <4>4. Coming(n) = {}
        <5> SUFFICES ASSUME NEW i \in Coming(n) PROVE FALSE
          OBVIOUS
        <5>1. gate[n].t <= Data(i, n).t /\ Data(i, n).t < gate[n].t
          BY <1>4, <2>2, <2>3, <4>2 DEF InTime
        <5>2. gate[n].t \in Nat /\ Data(i, n).t \in Nat
          BY <1>2, <1>7, <4>2, ItemTypes
        <5> QED
          BY <5>1, <5>2
      <4> QED
        BY <1>4, <2>1, <2>3, <4>3, <4>4 DEF LastSent
    <3> QED
      BY <3>1, <3>2
  <2>4. CASE gate[n] # None /\ p.v = gate[n].v /\ p.t = gate[n].t
    <3>1. Coming(n) = {}
      <4> SUFFICES ASSUME NEW i \in Coming(n) PROVE FALSE
        OBVIOUS
      <4>1. gate[n].t <= Data(i, n).t /\ Data(i, n).t < gate[n].t
        BY <1>4, <2>2, <2>4 DEF InTime
      <4>2. gate[n].t \in Nat /\ Data(i, n).t \in Nat
        BY <1>2, <1>7, <2>4, ItemTypes
      <4> QED
        BY <4>1, <4>2
    <3> QED
      BY <1>4, <2>1, <2>4, <3>1 DEF LastSent
  <2> QED
    BY <1>5, <2>3, <2>4
<1>9. CASE later # {}
  <2>1. later \subseteq Coming(n) /\ Coming(n) \subseteq 1..Len(sock.down) /\ Len(sock.down) \in Nat
    BY <1>2, ItemTypes DEF later
  <2>2. \E i \in Coming(n) : \A j \in Coming(n) : j <= i
    <3>1. Coming(n) \in SUBSET Nat /\ Coming(n) # {} /\ \A j \in Coming(n) : j <= Len(sock.down)
      BY <1>9, <2>1
    <3> QED
      BY <2>1, <3>1, Largest
  <2>3. PICK i \in Coming(n) : \A j \in Coming(n) : j <= i
    BY <2>2
  <2>4. i \in later
    <3>1. PICK j \in later : TRUE
      BY <1>9
    <3>2. j \in Coming(n) /\ Data(j, n).t >= p.t /\ (j < i \/ j = i)
      BY <2>1, <2>3, <3>1 DEF later, p, Data
    <3>3. Data(i, n).t >= Data(j, n).t
      BY <1>4, <1>7, <2>3, <3>2 DEF InTime
    <3>4. Data(i, n).t >= p.t
      BY <1>6, <1>7, <2>3, <3>2, <3>3
    <3> QED
      BY <2>3, <3>4 DEF later, p, Data
  <2>5. (CHOOSE k \in later : \A j \in later : j <= k) = i
    <3>1. \A j \in later : j <= i
      BY <2>1, <2>3
    <3>2. \A k \in later : (\A j \in later : j <= k) => k = i
      BY <2>1, <2>3, <2>4, <3>1
    <3> QED
      BY <2>4, <3>1, <3>2
  <2>6. Believed(n) = Data(i, n).v
    BY <1>9, <2>5 DEF Believed, later, Data
  <2> QED
    BY <1>4, <2>3, <2>6 DEF LastSent
<1> QED
  BY <1>8, <1>9

(* The Hub sends differences from what it sent last: when there is no      *)
(* difference left, what the client holds, or is about to, is what the Hub *)
(* has.                                                                    *)
THEOREM NothingUnsaid == Spec => []NothingLeftUnsaid
<1>1. Init => ValueInv
  <2> SUFFICES ASSUME Init PROVE ValueInv
    OBVIOUS
  <2>1. TypeInv
    BY TypeInit
  <2>2. ASSUME NEW n \in Names PROVE ValuesOf(n)
    <3>1. gate[n] = None /\ Fetched(n) = None /\ Coming(n) = {} /\ sock.at # "serving"
      BY Blanks DEF Init, NoGate, Fetched, Coming
    <3>2. \A m : m \notin Sent(n)
      BY <3>1, SentIs
    <3> QED
      BY <3>1, <3>2 DEF ValuesOf, InTime, OneContent, LastSent, FetchedLater
  <2> QED
    BY <2>1, <2>2 DEF Init, ValueInv, AllFetched
<1>2. ValueInv /\ [Next]_vars => ValueInv'
  BY ValuesStep
<1>3. ValueInv => NothingLeftUnsaid
  BY Holds DEF NothingLeftUnsaid
<1> QED
  BY <1>1, <1>2, <1>3, PTL DEF Spec
=============================================================================
