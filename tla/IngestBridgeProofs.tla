------------------------- MODULE IngestBridgeProofs -------------------------
(***************************************************************************)
(* Theorems about IngestBridge for any contents of the bridge section, any *)
(* sources, pollers and WebSockets, and any bounds: types, one poller at a *)
(* time, the refinement of EpochSlot, and whose SQL the Hub holds.         *)
(***************************************************************************)
EXTENDS IngestBridge, TLAPS

(* Any picks a member.                                                     *)
LEMMA AnyMember == ASSUME NEW S, S # {} PROVE Any(S) \in S
BY DEF Any

-----------------------------------------------------------------------------
(***************************************************************************)
(* Types.                                                                  *)
(***************************************************************************)

(* What the helpers of the Hub's side return.                              *)
LEMMA UnreadType == ASSUME NEW cs \in [Conns -> ConnStates] PROVE Unread(cs) \in [Conns -> ConnStates]
BY DEF Unread, ConnStates

LEMMA HubTypes ==
    ASSUME TypeOK
    PROVE  /\ \A why \in {"changed", "superseded"} : EndWs(conn, why) \in [Conns -> ConnStates]
           /\ Free \in ConnStates
           /\ Committed \in Settings /\ Saved \in Settings
<1>1. ASSUME NEW why \in {"changed", "superseded"} PROVE EndWs(conn, why) \in [Conns -> ConnStates]
  <2>1. slot.reg \in Conns \cup {None} /\ conn \in [Conns -> ConnStates]
    BY DEF TypeOK, SlotStates
  <2>2. \A c \in Conns : [conn[c] EXCEPT !.ended = why] \in ConnStates
    BY <2>1 DEF ConnStates
  <2>3. slot.reg # None => EndWs(conn, why) = [conn EXCEPT ![slot.reg] = [conn[slot.reg] EXCEPT !.ended = why]]
    BY DEF EndWs
  <2> QED
    BY <2>1, <2>2, <2>3 DEF EndWs
<1>3. Free \in ConnStates
  BY DEF Free, ConnStates
<1>4. Len(saves) \in Nat \ {0} /\ Committed = saves[1]
  BY DEF TypeOK, Committed
<1>5. Committed \in Settings /\ Saved \in Settings
  BY <1>4 DEF TypeOK, Saved
<1> QED
  BY <1>1, <1>3, <1>5

(* What a notice carries.                                                  *)
LEMMA NotifyType ==
    ASSUME NEW changed \in BOOLEAN, NEW collecting \in BOOLEAN, NEW epoch \in Epochs
    PROVE  Notify(changed, collecting, epoch) \in Notice
BY DEF Notify, Notice

(* What the helpers of the bridge's side return.                           *)
LEMMA RetiredType ==
    ASSUME TypeOK, NEW p PROVE Retired(p) \in [Pollers -> PollerStates]
BY DEF TypeOK, Retired, PollerStates

LEMMA DetachedType ==
    ASSUME TypeOK, NEW c \in Conns PROVE Detached(c) \in [Conns -> ConnStates]
<1>1. conn[c] \in ConnStates
  BY DEF TypeOK
<1>2. [conn[c] EXCEPT !.bridge = FALSE, !.down = <<>>] \in ConnStates
  <2>1. <<>> \in Seq(Messages)
    OBVIOUS
  <2> QED
    BY <1>1, <2>1 DEF ConnStates
<1> QED
  BY <1>2, HubTypes DEF TypeOK, Detached

LEMMA AwayType ==
    ASSUME NEW x \in SourceStates PROVE Away(x) \in SourceStates
BY DEF Away, SourceStates

LEMMA NoSourceType == NoSource \in SourceStates
BY DEF NoSource, SourceStates

LEMMA ResumeType ==
    ASSUME TypeOK, NEW s \in Sources, NEW x \in SourceStates, NEW r, Resume(s, x, r)
    PROVE  src' \in [Sources -> SourceStates] /\ poller' \in [Pollers -> PollerStates]
<1>1. CASE CanStart(x)
  <2> DEFINE p == Any(FreePollers)
  <2>1. p \in Pollers
    BY <1>1, AnyMember DEF CanStart, FreePollers
  <2>2. /\ poller' = [Retired(r) EXCEPT
                        ![p] = [alive |-> TRUE, permit |-> x.permit, sql |-> x.sql,
                                stop |-> FALSE, era |-> None]]
        /\ src' = [src EXCEPT ![s] = [x EXCEPT !.poller = p]]
    BY <1>1 DEF Resume
  <2>3. [alive |-> TRUE, permit |-> x.permit, sql |-> x.sql, stop |-> FALSE, era |-> None]
          \in PollerStates
    BY DEF SourceStates, PollerStates
  <2>4. [x EXCEPT !.poller = p] \in SourceStates
    BY <2>1 DEF SourceStates
  <2> HIDE DEF p
  <2> QED
    BY <2>1, <2>2, <2>3, <2>4, RetiredType DEF TypeOK
<1>2. CASE ~CanStart(x)
  BY <1>2, RetiredType DEF Resume, TypeOK
<1> QED
  BY <1>1, <1>2

(* A message at the head of a stream, and what is left of the stream.      *)
LEMMA HearsType ==
    ASSUME TypeOK, NEW s \in Sources, NEW op \in {"welcome", "state", "close"}, Hears(s, op),
           src[s].conn \in Conns
    PROVE  /\ Heard(s) \in [Conns -> ConnStates]
           /\ Head(conn[src[s].conn].down) \in Messages
           /\ op # "close" => Head(conn[src[s].conn].down).notice \in Notice
<1> DEFINE c == src[s].conn
           d == conn[c].down
<1>1. d # <<>> /\ Head(d).op = op
  BY DEF Hears
<1>2. conn[c] \in ConnStates /\ d \in Seq(Messages)
  BY DEF TypeOK, ConnStates
<1>3. Head(d) \in Messages /\ Tail(d) \in Seq(Messages)
  BY <1>1, <1>2
<1>4. [conn[c] EXCEPT !.down = Tail(d)] \in ConnStates
  BY <1>2, <1>3 DEF ConnStates
<1>5. Heard(s) \in [Conns -> ConnStates]
  BY <1>4 DEF Heard, TypeOK
<1>6. op # "close" => Head(d).notice \in Notice
  BY <1>1, <1>3 DEF Messages
<1> QED
  BY <1>3, <1>5, <1>6

(* A source that runs has SQL and, once it is connected, a WebSocket and,  *)
(* once it is welcomed, an epoch; a poller that goes on querying has SQL.  *)
Whole(x) ==
    /\ x.at # "none" => x.sql \in Sqls
    /\ x.at \in {"greeting", "open"} => x.conn \in Conns
    /\ x.at = "open" => x.epoch # 0
Querying(y) == y.alive /\ ~y.stop => y.sql \in Sqls
Shape == (\A s \in Sources : Whole(src[s])) /\ (\A p \in Pollers : Querying(poller[p]))

\* What a `state` changes of a source, and what it empties.
LEMMA ToldType ==
    ASSUME NEW x \in SourceStates, Whole(x), x.at = "open", NEW e \in Epochs, NEW b \in BOOLEAN,
           NEW a \in {"no", "asked", "covered", "confirmed"}
    PROVE  LET y == [x EXCEPT !.epoch = e, !.collecting = b, !.awaiting = a]
           IN  y \in SourceStates /\ Whole(y)
BY DEF SourceStates, Whole, Epochs

LEMMA EmptiedType ==
    ASSUME NEW x \in SourceStates, Whole(x)
    PROVE  LET y == [x EXCEPT !.poller = None, !.out = None] IN y \in SourceStates /\ Whole(y)
BY DEF SourceStates, Whole

(* The types hold initially.                                               *)
LEMMA InitTypeOK == Init => TypeOK
<1> SUFFICES ASSUME Init PROVE TypeOK
  OBVIOUS
<1>1. saves \in Seq(Settings) \ {<<>>}
  <2>1. Any(Sqls) \in Sqls
    BY AnyMember, BridgeAssumption
  <2>2. PICK on \in BOOLEAN : saves = <<[sql |-> Any(Sqls), on |-> on]>>
    BY DEF Init
  <2> QED
    BY <2>1, <2>2 DEF Settings
<1>2. slot \in SlotStates
  BY DEF Init, SlotStates, Notify, Notice, Epochs
<1>3. conn \in [Conns -> ConnStates]
  BY DEF Init, Free, ConnStates
<1>4. src \in [Sources -> SourceStates]
  BY NoSourceType DEF Init
<1>5. poller \in [Pollers -> PollerStates]
  BY DEF Init, Idle, PollerStates
<1> QED
  BY <1>1, <1>2, <1>3, <1>4, <1>5, BridgeAssumption DEF Init, TypeOK

(* The steps of the Hub keep the types.                                    *)
LEMMA HubStepType == ASSUME TypeOK, Collection \/ Registry PROVE TypeOK'
<1> USE DEF hubVars, bridgeVars
<1>0. /\ slot.epoch + 1 \in Epochs /\ slot.epoch \in Epochs /\ slot.collecting \in BOOLEAN
      /\ left - 1 \in Nat \/ left = 0
  BY DEF TypeOK, SlotStates, Epochs
<1>1. CASE CollectionStopped
  <2>1. slot' \in SlotStates
    BY <1>0, <1>1, NotifyType DEF CollectionStopped, TypeOK, SlotStates
  <2> QED
    BY <1>0, <1>1, <2>1, UnreadType DEF CollectionStopped, Disturb, TypeOK, Folds
<1>2. CASE CollectionStarting
  BY <1>0, <1>2 DEF CollectionStarting, TypeOK, SlotStates
<1>3. CASE CollectionStarted
  <2>1. slot' \in SlotStates
    BY <1>0, <1>3, NotifyType DEF CollectionStarted, TypeOK, SlotStates
  <2> QED
    BY <1>3, <2>1, UnreadType DEF CollectionStarted, TypeOK, Folds
<1>4. CASE CollectionFaulted
  BY <1>4 DEF CollectionFaulted, TypeOK
<1>5. CASE Save
  <2>1. saves' \in Seq(Settings) \ {<<>>}
    BY <1>5 DEF Save, TypeOK
  <2> QED
    BY <1>0, <1>5, <2>1 DEF Save, Disturb, TypeOK
<1>6. CASE Commit
  <2>1. PICK r \in 2..Len(saves) :
          LET bridge == saves[r].sql # Committed.sql
              switched == saves[r].on # Committed.on
          IN  /\ saves' = Since(r)
              /\ skipped' = (skipped \/ (r > 2 /\ ~bridge))
              /\ IF bridge \/ switched
                 THEN /\ slot' = [slot EXCEPT !.held = None, !.epoch = slot.epoch + 1,
                                              !.notice = Notify(bridge, Collecting, slot.epoch + 1),
                                              !.reg = IF switched THEN None ELSE slot.reg]
                      /\ conn' = Unread(IF switched THEN EndWs(conn, "changed") ELSE conn)
                      /\ folded' = (folded \/ (Folds(bridge) /\ ~switched))
                 ELSE UNCHANGED <<slot, conn, folded>>
    BY <1>6 DEF Commit
  <2>2. saves' \in Seq(Settings) \ {<<>>}
    <3>1. saves' = SubSeq(saves, r, Len(saves))
      BY <2>1 DEF Since
    <3>2. saves \in Seq(Settings) /\ Len(saves) \in Nat
      BY DEF TypeOK
    <3>3. saves' \in Seq(Settings) /\ Len(saves') # 0
      BY <3>1, <3>2
    <3> QED
      BY <3>3
  <2>3. slot' \in SlotStates
    <3> DEFINE bridge == saves[r].sql # Committed.sql
               switched == saves[r].on # Committed.on
               note == Notify(bridge, Collecting, slot.epoch + 1)
    <3>1. note \in Notice
      BY <1>0, NotifyType DEF Collecting
    <3>2. CASE bridge \/ switched
      <4>1. slot' = [slot EXCEPT !.held = None, !.epoch = slot.epoch + 1, !.notice = note,
                                 !.reg = IF switched THEN None ELSE slot.reg]
        BY <2>1, <3>2
      <4>2. slot \in SlotStates
        BY DEF TypeOK
      <4> HIDE DEF note, switched
      <4> QED
        BY <1>0, <3>1, <4>1, <4>2 DEF SlotStates
    <3>3. CASE ~(bridge \/ switched)
      BY <2>1, <3>3 DEF TypeOK
    <3> QED
      BY <3>2, <3>3
  <2>4. conn' \in [Conns -> ConnStates]
    BY <2>1, HubTypes, UnreadType DEF TypeOK
  <2>5. skipped' \in BOOLEAN /\ folded' \in BOOLEAN
    BY <2>1 DEF TypeOK, Folds
  <2> QED
    BY <1>6, <2>2, <2>3, <2>4, <2>5 DEF Commit, TypeOK
<1> QED
  BY <1>1, <1>2, <1>3, <1>4, <1>5, <1>6 DEF Collection, Registry

(* The steps of one WebSocket at the Hub, and a broken link.               *)
LEMMA StreamStepType ==
    ASSUME TypeOK, NEW c \in Conns, Stream(c) \/ Break(c) PROVE TypeOK'
<1> USE DEF hubVars, bridgeVars
<1>0. conn[c] \in ConnStates /\ slot \in SlotStates /\ Free \in ConnStates
  BY HubTypes DEF TypeOK
<1>1. CASE SendState(c)
  <2>1. [op |-> "state", notice |-> slot.notice] \in Messages
    BY <1>0 DEF SlotStates, Messages
  <2>2. Say(c, [op |-> "state", notice |-> slot.notice]) \in Seq(Messages)
    BY <1>0, <2>1 DEF Say, ConnStates
  <2>3. conn' \in [Conns -> ConnStates]
    BY <1>0, <1>1, <2>2 DEF SendState, TypeOK, ConnStates
  <2> QED
    BY <1>1, <2>3 DEF SendState, TypeOK
<1>2. ASSUME NEW why \in Reasons, Leave(c, why) PROVE TypeOK'
  <2>1. Append(conn[c].down, [op |-> "close", why |-> why]) \in Seq(Messages)
    BY <1>0 DEF ConnStates, Messages
  <2>2. [conn[c] EXCEPT !.hub = FALSE, !.up = <<>>, !.unread = FALSE, !.ended = "no",
                        !.down = Append(conn[c].down, [op |-> "close", why |-> why])] \in ConnStates
    <3>1. <<>> \in Seq(Values)
      OBVIOUS
    <3> QED
      BY <1>0, <2>1, <3>1 DEF ConnStates
  <2>3. conn' \in [Conns -> ConnStates]
    <3>1. CASE conn[c].bridge
      BY <1>2, <2>2, <3>1 DEF Leave, TypeOK
    <3>2. CASE ~conn[c].bridge
      BY <1>0, <1>2, <3>2 DEF Leave, TypeOK
    <3> QED
      BY <3>1, <3>2
  <2>4. slot' \in SlotStates
    BY <1>0, <1>2 DEF Leave, SlotStates, OffRegister
  <2> QED
    BY <1>2, <2>3, <2>4 DEF Leave, TypeOK
<1>3. CASE HubEnds(c)
  <2>1. conn[c].ended \in Reasons
    BY <1>0, <1>3 DEF HubEnds, ConnStates, Reasons
  <2> QED
    BY <1>2, <1>3, <2>1 DEF HubEnds
<1>4. CASE HubLoses(c)
  BY <1>2, <1>4 DEF HubLoses, Reasons
<1>5. CASE HandleValues(c)
  <2>1. Head(conn[c].up) \in Values /\ Tail(conn[c].up) \in Seq(Values)
    BY <1>0, <1>5 DEF HandleValues, ConnStates
  <2>2. slot' \in SlotStates
    BY <1>0, <1>5, <2>1 DEF HandleValues, Applied, SlotStates, Values, Readings, Held
  <2>3. conn' \in [Conns -> ConnStates]
    BY <1>0, <1>5, <2>1 DEF HandleValues, TypeOK, ConnStates
  <2> QED
    BY <1>5, <2>2, <2>3 DEF HandleValues, TypeOK
<1>6. CASE Break(c)
  <2>1. [conn[c] EXCEPT !.bridge = FALSE, !.down = <<>>] \in ConnStates
    <3>1. <<>> \in Seq(Messages)
      OBVIOUS
    <3> QED
      BY <1>0, <3>1 DEF ConnStates
  <2> QED
    BY <1>0, <1>6, <2>1 DEF Break, Disturb, TypeOK
<1> QED
  BY <1>1, <1>3, <1>4, <1>5, <1>6 DEF Stream

(* Steps that leave the sources and the pollers leave their shape.         *)
LEMMA SameShape == ASSUME Shape, UNCHANGED <<src, poller>> PROVE Shape'
BY DEF Shape

(* The steps of the pollers.                                               *)
LEMMA TakenType ==
    ASSUME NEW x \in SourceStates, NEW o \in Readings
    PROVE  [x EXCEPT !.out = o] \in SourceStates /\ (Whole(x) => Whole([x EXCEPT !.out = o]))
BY DEF SourceStates, Whole

LEMMA PollerStepType ==
    ASSUME TypeOK, Shape, NEW p \in Pollers, Poller(p) PROVE TypeOK' /\ Shape'
<1> USE DEF hubVars, bridgeVars
<1>0. poller[p] \in PollerStates /\ slot.epoch \in Epochs
  BY DEF TypeOK, SlotStates
<1>1. CASE QueryBegins(p)
  <2>1. TypeOK'
    BY <1>0, <1>1 DEF QueryBegins, TypeOK, PollerStates
  <2>2. Shape'
    BY <1>1 DEF QueryBegins, TypeOK, PollerStates, Shape, Querying
  <2> QED
    BY <2>1, <2>2
<1>2. CASE QueryEnds(p)
  <2>1. poller' \in [Pollers -> PollerStates]
    BY <1>0, <1>2 DEF QueryEnds, TypeOK, PollerStates
  <2>2. [sql |-> poller[p].sql, era |-> poller[p].era] \in Readings
    BY <1>0, <1>2 DEF QueryEnds, Shape, Querying, PollerStates, Readings
  <2>3. src' \in [Sources -> SourceStates]
    <3> DEFINE o == [sql |-> poller[p].sql, era |-> poller[p].era]
    <3>1. \A s \in Sources : [src[s] EXCEPT !.out = o] \in SourceStates
      BY <2>2, TakenType DEF TypeOK
    <3> HIDE DEF o
    <3>2. src' = [s \in Sources |-> IF src[s].poller = p THEN [src[s] EXCEPT !.out = o] ELSE src[s]]
      BY <1>2 DEF QueryEnds, o
    <3> QED
      BY <3>1, <3>2 DEF TypeOK
  <2>4. Shape'
    <3>1. \A s \in Sources : Whole(src'[s])
      BY <1>2 DEF QueryEnds, TypeOK, SourceStates, Shape, Whole
    <3>2. \A q \in Pollers : Querying(poller'[q])
      BY <1>2 DEF QueryEnds, TypeOK, PollerStates, Shape, Querying
    <3> QED
      BY <3>1, <3>2 DEF Shape
  <2> QED
    BY <1>2, <2>1, <2>3, <2>4 DEF QueryEnds, TypeOK
<1>3. CASE PollerStops(p)
  <2>1. Idle \in PollerStates /\ Querying(Idle)
    BY DEF Idle, PollerStates, Querying
  <2>2. Shape'
    BY <1>3, <2>1 DEF PollerStops, TypeOK, Shape
  <2> QED
    BY <1>3, <2>1, <2>2 DEF PollerStops, TypeOK
<1> QED
  BY <1>1, <1>2, <1>3 DEF Poller

(* Stopping a poller keeps the shape of all of them.                       *)
LEMMA RetiredShape ==
    ASSUME TypeOK, Shape, NEW r PROVE \A p \in Pollers : Querying(Retired(r)[p])
BY DEF TypeOK, PollerStates, Shape, Querying, Retired

LEMMA ResumeShape ==
    ASSUME TypeOK, Shape, NEW s \in Sources, NEW x \in SourceStates, Whole(x), NEW r,
           Resume(s, x, r)
    PROVE  Shape'
<1>1. CASE CanStart(x)
  <2> DEFINE p == Any(FreePollers)
             fresh == [alive |-> TRUE, permit |-> x.permit, sql |-> x.sql,
                       stop |-> FALSE, era |-> None]
  <2>1. p \in Pollers
    BY <1>1, AnyMember DEF CanStart, FreePollers
  <2>2. poller' = [Retired(r) EXCEPT ![p] = fresh]
    BY <1>1 DEF Resume
  <2>3. src' = [src EXCEPT ![s] = [x EXCEPT !.poller = p]]
    BY <1>1 DEF Resume
  <2>4. Querying(fresh)
    BY <1>1 DEF CanStart, Wants, Whole, Querying
  <2>5. Whole([x EXCEPT !.poller = p])
    BY DEF Whole, SourceStates
  <2> HIDE DEF p, fresh
  <2>6. \A q \in Pollers : Querying(poller'[q])
    BY <2>1, <2>2, <2>4, RetiredType, RetiredShape
  <2>7. \A t \in Sources : Whole(src'[t])
    BY <2>3, <2>5 DEF TypeOK, Shape
  <2> QED
    BY <2>6, <2>7 DEF Shape
<1>2. CASE ~CanStart(x)
  BY <1>2, RetiredShape DEF Resume, TypeOK, Shape
<1> QED
  BY <1>1, <1>2

(* A source that goes away from its WebSocket, and one that ends.          *)
LEMMA AwayWhole == ASSUME NEW x \in SourceStates, Whole(x), x.at # "none" PROVE Whole(Away(x))
BY DEF Away, Whole, SourceStates

LEMMA NoSourceWhole == Whole(NoSource)
BY DEF NoSource, Whole

(* The steps of a source.                                                  *)
LEMMA IncomingType ==
    ASSUME TypeOK, Shape, NEW s \in Sources, Incoming(s) PROVE TypeOK' /\ Shape'
<1> USE DEF hubVars, bridgeVars
<1> DEFINE c == src[s].conn
           m == Head(conn[c].down)
<1>0. src[s] \in SourceStates /\ Whole(src[s])
  BY DEF TypeOK, Shape
<1>1. CASE OnWelcome(s)
  <2>1. src[s].at = "greeting" /\ c \in Conns /\ Hears(s, "welcome")
    BY <1>0, <1>1 DEF OnWelcome, Whole
  <2>2. Heard(s) \in [Conns -> ConnStates] /\ m.notice \in Notice
    BY <2>1, HearsType
  <2>3. Greeted(src[s], m.notice) \in SourceStates /\ Whole(Greeted(src[s], m.notice))
    BY <1>0, <2>1, <2>2 DEF Greeted, SourceStates, Notice, Whole, Epochs
  <2>4. src' = [src EXCEPT ![s] = Greeted(src[s], m.notice)] /\ conn' = Heard(s)
    BY <1>1 DEF OnWelcome
  <2>5. UNCHANGED <<saves, phase, slot, fetch, running, permit, poller, newest, folded, skipped, left>>
        /\ refresh' = TRUE
    BY <1>1 DEF OnWelcome
  <2> HIDE DEF c, m
  <2> QED
    BY <2>2, <2>3, <2>4, <2>5 DEF TypeOK, Shape
<1>2. CASE OnState(s)
  <2>1. src[s].at = "open" /\ c \in Conns /\ Hears(s, "state")
    BY <1>0, <1>2 DEF OnState, Whole
  <2>2. Heard(s) \in [Conns -> ConnStates] /\ m.notice \in Notice
    BY <2>1, HearsType
  <2> DEFINE n == m.notice
             a == IF n.changed THEN "asked" ELSE src[s].awaiting
             told == [src[s] EXCEPT !.epoch = n.epoch, !.collecting = n.collecting, !.awaiting = a]
             told2 == [told EXCEPT !.poller = None, !.out = None]
  <2>3. told \in SourceStates /\ Whole(told)
    <3>1. n.epoch \in Epochs /\ n.collecting \in BOOLEAN
      BY <2>2 DEF Notice
    <3>2. a \in {"no", "asked", "covered", "confirmed"}
      BY <1>0 DEF SourceStates
    <3> HIDE DEF n, m, c, a
    <3> QED
      BY <1>0, <2>1, <3>1, <3>2, ToldType
  <2>4. told2 \in SourceStates /\ Whole(told2)
    <3> HIDE DEF told
    <3> QED
      BY <2>3, EmptiedType
  <2>5. Resume(s, told2, src[s].poller) \/ Resume(s, told, None)
    BY <1>2 DEF OnState
  <2>6. /\ conn' = Heard(s) /\ refresh' = (refresh \/ n.changed)
        /\ UNCHANGED <<saves, phase, slot, fetch, running, permit, newest, folded, skipped, left>>
    BY <1>2 DEF OnState
  <2> HIDE DEF told, told2
  <2>7. Shape'
    BY <2>3, <2>4, <2>5, ResumeShape
  <2>8. src' \in [Sources -> SourceStates] /\ poller' \in [Pollers -> PollerStates]
    BY <2>3, <2>4, <2>5, ResumeType
  <2>9. refresh' \in BOOLEAN
    BY <2>2, <2>6 DEF TypeOK, Notice
  <2> HIDE DEF c, m, n
  <2> QED
    BY <2>2, <2>6, <2>7, <2>8, <2>9 DEF TypeOK
<1>3. CASE OnClose(s) \/ OnLost(s)
  <2>1. src[s].at \in {"greeting", "open"} /\ c \in Conns
    BY <1>0, <1>3 DEF OnClose, OnLost, Hears, Whole
  <2>2. /\ src' = [src EXCEPT ![s] = Away(src[s])] /\ poller' = Retired(src[s].poller)
        /\ conn' = Detached(c) \/ conn' = conn
        /\ UNCHANGED <<saves, phase, slot, fetch, running, permit, newest, folded, skipped, left>>
    BY <1>3 DEF OnClose, OnLost
  <2>3. refresh' \in BOOLEAN
    BY <1>3 DEF OnClose, OnLost, TypeOK
  <2>4. Away(src[s]) \in SourceStates /\ Whole(Away(src[s]))
    BY <1>0, <2>1, AwayType, AwayWhole
  <2>5. conn' \in [Conns -> ConnStates]
    BY <2>1, <2>2, DetachedType DEF TypeOK
  <2>6. poller' \in [Pollers -> PollerStates]
    BY <2>2, RetiredType
  <2>7. \A p \in Pollers : Querying(poller'[p])
    BY <2>2, RetiredShape
  <2> HIDE DEF c, m
  <2> QED
    BY <2>2, <2>3, <2>4, <2>5, <2>6, <2>7 DEF TypeOK, Shape
<1> QED
  BY <1>1, <1>2, <1>3 DEF Incoming

LEMMA SourceStepType ==
    ASSUME TypeOK, Shape, NEW s \in Sources, Source(s) PROVE TypeOK' /\ Shape'
<1> USE DEF hubVars, bridgeVars
<1> DEFINE c == src[s].conn
<1>0. src[s] \in SourceStates /\ Whole(src[s]) /\ slot \in SlotStates
  BY DEF TypeOK, Shape
<1>1. CASE Connect(s)
  <2> DEFINE d == Any(FreeConns)
             hello == [op |-> "welcome", notice |-> Notify(FALSE, Collecting, slot.epoch)]
             opened == [Free EXCEPT !.hub = TRUE, !.bridge = TRUE, !.down = <<hello>>]
             new == [src[s] EXCEPT !.at = "greeting", !.conn = d]
  <2>1. d \in Conns
    BY <1>1, AnyMember DEF Connect, FreeConns
  <2>2. hello \in Messages
    BY <1>0, NotifyType DEF Messages, SlotStates, Collecting
  <2>3. opened \in ConnStates
    <3>1. <<hello>> \in Seq(Messages)
      BY <2>2
    <3> HIDE DEF hello
    <3> QED
      BY <3>1, HubTypes DEF ConnStates
  <2>4. /\ conn' = [EndWs(conn, "superseded") EXCEPT ![d] = opened]
        /\ slot' = [slot EXCEPT !.reg = d] /\ newest' = d
        /\ src' = [src EXCEPT ![s] = new]
        /\ UNCHANGED <<saves, phase, refresh, fetch, running, permit, poller, folded, skipped, left>>
    BY <1>1, <1>0 DEF Connect, TypeOK
  <2>5. new \in SourceStates /\ Whole(new)
    BY <1>0, <1>1, <2>1 DEF SourceStates, Whole, Connect
  <2>6. slot' \in SlotStates
    BY <1>0, <2>1, <2>4 DEF SlotStates
  <2>7. EndWs(conn, "superseded") \in [Conns -> ConnStates]
    BY HubTypes
  <2> HIDE DEF d, opened, new
  <2> QED
    BY <2>1, <2>3, <2>4, <2>5, <2>6, <2>7 DEF TypeOK, Shape
<1>2. CASE ConnectRefused(s)
  BY <1>2, SameShape DEF ConnectRefused, TypeOK
<1>3. CASE Incoming(s)
  BY <1>3, IncomingType
<1>4. CASE OnConfirmed(s) \/ OnSlotFree(s)
  <2> DEFINE x == [src[s] EXCEPT !.awaiting = "no"]
  <2>1. x \in SourceStates /\ Whole(x)
    BY <1>0 DEF SourceStates, Whole
  <2>2. Resume(s, x, None) \/ Resume(s, src[s], None)
    BY <1>4 DEF OnConfirmed, OnSlotFree
  <2> HIDE DEF x
  <2>3. Shape' /\ src' \in [Sources -> SourceStates] /\ poller' \in [Pollers -> PollerStates]
    BY <1>0, <2>1, <2>2, ResumeShape, ResumeType
  <2> QED
    BY <1>4, <2>3 DEF OnConfirmed, OnSlotFree, TypeOK
<1>5. CASE Send(s)
  <2> DEFINE v == [epoch |-> src[s].epoch, reading |-> src[s].out]
  <2>1. c \in Conns /\ conn[c] \in ConnStates
    BY <1>0, <1>5 DEF Send, Whole, TypeOK
  <2>2. v \in Values
    BY <1>0, <1>5 DEF Send, Whole, SourceStates, Values
  <2>3. Append(conn[c].up, v) \in Seq(Values) /\ conn[c].up \in Seq(Values)
    BY <2>1, <2>2 DEF ConnStates
  <2>4. [conn[c] EXCEPT !.up = Append(conn[c].up, v)] \in ConnStates
    BY <2>1, <2>3 DEF ConnStates
  <2>5. conn' = [conn EXCEPT ![c].up = IF conn[c].hub THEN Append(@, v) ELSE @]
    BY <1>5 DEF Send
  <2>6. conn' \in [Conns -> ConnStates]
    BY <2>1, <2>4, <2>5 DEF TypeOK, ConnStates
  <2>7. [src[s] EXCEPT !.out = None] \in SourceStates /\ Whole([src[s] EXCEPT !.out = None])
    BY <1>0 DEF SourceStates, Whole
  <2>8. src' = [src EXCEPT ![s] = [src[s] EXCEPT !.out = None]]
        /\ UNCHANGED <<saves, phase, slot, refresh, fetch, running, permit, poller, newest,
                       folded, skipped, left>>
    BY <1>5 DEF Send, TypeOK
  <2> HIDE DEF c, v
  <2> QED
    BY <2>6, <2>7, <2>8 DEF TypeOK, Shape
<1>6. CASE OnStop(s)
  <2>1. src' = [src EXCEPT ![s] = NoSource] /\ poller' = Retired(src[s].poller)
    BY <1>6 DEF OnStop
  <2>2. conn' \in [Conns -> ConnStates]
    BY <1>0, <1>6, DetachedType DEF OnStop, SourceStates, TypeOK
  <2>3. poller' \in [Pollers -> PollerStates] /\ \A p \in Pollers : Querying(poller'[p])
    BY <2>1, RetiredType, RetiredShape
  <2> QED
    BY <1>6, <2>1, <2>2, <2>3, NoSourceType, NoSourceWhole DEF OnStop, TypeOK, Shape
<1> QED
  BY <1>1, <1>2, <1>3, <1>4, <1>5, <1>6 DEF Source

(* The steps of the supervisor.                                            *)
LEMMA SupervisorStepType ==
    ASSUME TypeOK, Shape, Supervisor PROVE TypeOK' /\ Shape'
<1> USE DEF hubVars, bridgeVars
<1>0. Saved \in Settings
  BY HubTypes
<1>1. CASE TimerFires
  BY <1>1, SameShape DEF TimerFires, Disturb, TypeOK
<1>2. CASE FetchBegins
  <2>0. ASSUME NEW t \in Sources PROVE src'[t] \in SourceStates /\ Whole(src'[t])
    <3>1. src[t] \in SourceStates /\ Whole(src[t])
      BY DEF TypeOK, Shape
    <3>2. src'[t] = [src[t] EXCEPT !.awaiting = IF @ = "asked" THEN "covered" ELSE @]
      BY <1>2 DEF FetchBegins
    <3> QED
      BY <3>1, <3>2 DEF SourceStates, Whole
  <2>1. src' \in [Sources -> SourceStates] /\ \A t \in Sources : Whole(src'[t])
    BY <1>2, <2>0 DEF FetchBegins
  <2> QED
    BY <1>0, <1>2, <2>1 DEF FetchBegins, TypeOK, Shape
<1>3. CASE FetchFails
  BY <1>3, SameShape DEF FetchFails, TypeOK
<1>4. CASE FetchApplied
  <2> DEFINE told == [s \in Sources |->
                      [src[s] EXCEPT !.awaiting = IF src[s].awaiting = "covered"
                                                  THEN "confirmed" ELSE src[s].awaiting,
                                     !.stop = src[s].stop \/ (s = running /\ ~Unchanged(fetch))]]
  <2>1. told \in [Sources -> SourceStates] /\ \A t \in Sources : Whole(told[t])
    <3>1. ASSUME NEW t \in Sources PROVE told[t] \in SourceStates /\ Whole(told[t])
      <4>1. src[t] \in SourceStates /\ Whole(src[t])
        BY DEF TypeOK, Shape
      <4>2. told[t] = [src[t] EXCEPT !.awaiting = IF src[t].awaiting = "covered"
                                                  THEN "confirmed" ELSE src[t].awaiting,
                                     !.stop = src[t].stop \/ (t = running /\ ~Unchanged(fetch))]
        OBVIOUS
      <4>3. (src[t].stop \/ (t = running /\ ~Unchanged(fetch))) \in BOOLEAN
        BY <4>1 DEF SourceStates
      <4> HIDE DEF told
      <4>4. told[t] \in SourceStates
        BY <4>1, <4>2, <4>3 DEF SourceStates
      <4>5. Whole(told[t])
        BY <4>1, <4>2 DEF SourceStates, Whole
      <4> QED
        BY <4>4, <4>5
    <3>2. told = [t \in Sources |-> told[t]]
      OBVIOUS
    <3> HIDE DEF told
    <3> QED
      BY <3>1, <3>2
  <2>2. fetch \in Settings /\ Retained(fetch) \in Permits \cup {None}
    BY <1>4 DEF FetchApplied, TypeOK, Retained
  <2>3. /\ fetch' = None
        /\ UNCHANGED <<saves, phase, slot, conn, refresh, poller, newest, folded, skipped, left>>
    BY <1>4 DEF FetchApplied
  <2>4. CASE Unchanged(fetch) \/ ~fetch.on
    <3>1. /\ src' = told /\ permit' = Retained(fetch)
          /\ running' = IF Unchanged(fetch) THEN running ELSE None
      BY <1>4, <2>4 DEF FetchApplied
    <3> HIDE DEF told
    <3> QED
      BY <2>1, <2>2, <2>3, <3>1 DEF TypeOK, Shape
  <2>5. CASE ~(Unchanged(fetch) \/ ~fetch.on)
    <3> DEFINE s == Any(FreeSources)
               k == IF Retained(fetch) # None THEN Retained(fetch) ELSE Any(NewPermits)
               new == [NoSource EXCEPT !.at = "away", !.sql = fetch.sql, !.permit = k]
    <3>1. /\ FreeSources # {} /\ (Retained(fetch) # None \/ NewPermits # {})
          /\ src' = [told EXCEPT ![s] = new] /\ running' = s /\ permit' = k
      BY <1>4, <2>5 DEF FetchApplied
    <3>2. s \in Sources /\ k \in Permits
      BY <2>2, <3>1, AnyMember DEF FreeSources, NewPermits
    <3>3. new \in SourceStates /\ Whole(new)
      BY <2>2, <3>2, NoSourceType DEF SourceStates, Settings, Whole
    <3> HIDE DEF told, s, k, new
    <3> QED
      BY <2>1, <2>3, <3>1, <3>2, <3>3 DEF TypeOK, Shape
  <2> QED
    BY <2>4, <2>5
<1> QED
  BY <1>1, <1>2, <1>3, <1>4 DEF Supervisor

(* The types and the shape together are inductive.                         *)
LEMMA InitShape == Init => Shape
<1>1. Whole(NoSource) /\ Querying(Idle)
  BY NoSourceWhole DEF Querying, Idle
<1> QED
  BY <1>1 DEF Init, Shape

LEMMA StepTypes == TypeOK /\ Shape /\ [Next]_vars => TypeOK' /\ Shape'
<1> SUFFICES ASSUME TypeOK, Shape, [Next]_vars PROVE TypeOK' /\ Shape'
  OBVIOUS
<1>1. CASE Collection \/ Registry
  <2>1. UNCHANGED <<src, poller>>
    BY <1>1 DEF Collection, CollectionStopped, CollectionStarting, CollectionStarted,
                CollectionFaulted, Registry, Save, Commit, bridgeVars
  <2> QED
    BY <1>1, <2>1, HubStepType, SameShape
<1>2. ASSUME NEW c \in Conns, Stream(c) \/ Break(c) PROVE TypeOK' /\ Shape'
  <2>1. UNCHANGED <<src, poller>>
    BY <1>2 DEF Stream, SendState, HubEnds, HubLoses, Leave, HandleValues, Break, bridgeVars
  <2> QED
    BY <1>2, <2>1, StreamStepType, SameShape
<1>3. ASSUME NEW p \in Pollers, Poller(p) PROVE TypeOK' /\ Shape'
  BY <1>3, PollerStepType
<1>4. ASSUME NEW s \in Sources, Source(s) PROVE TypeOK' /\ Shape'
  BY <1>4, SourceStepType
<1>5. CASE Supervisor
  BY <1>5, SupervisorStepType
<1>6. CASE UNCHANGED vars
  BY <1>6 DEF vars, TypeOK, Shape
<1> QED
  BY <1>1, <1>2, <1>3, <1>4, <1>5, <1>6 DEF Next

(* Every variable keeps its type, whatever the Hub, the links and the      *)
(* bridge do.                                                              *)
THEOREM TypeCorrect == Spec => []TypeOK
<1>1. Init => TypeOK /\ Shape
  BY InitTypeOK, InitShape
<1> QED
  BY <1>1, StepTypes, PTL DEF Spec

-----------------------------------------------------------------------------
(***************************************************************************)
(* One poller at a time.  The permit of a connection is the supervisor's:  *)
(* every poller alive holds it, so there is one, and every source that has *)
(* not been told to stop is the one running and was given it.              *)
(***************************************************************************)

Permitted == \A p \in Pollers : poller[p].alive => permit # None /\ poller[p].permit = permit
Serves(x) == x.at # "none" /\ ~x.stop
Owned == \A s \in Sources : Serves(src[s]) =>
            s = running /\ src[s].permit = permit /\ permit # None
Lone == Permitted /\ Owned /\ OnePoller

(* Steps that start no poller and give no source the permit.               *)
LEMMA NoneStarted ==
    ASSUME Lone, UNCHANGED <<running, permit>>,
           \A p \in Pollers : poller'[p].alive =>
               poller[p].alive /\ poller'[p].permit = poller[p].permit,
           \A s \in Sources : Serves(src'[s]) => Serves(src[s]) /\ src'[s].permit = src[s].permit
    PROVE  Lone'
BY DEF Lone, Permitted, Owned, OnePoller

LEMMA RetiredAlive ==
    ASSUME TypeOK, NEW r
    PROVE  \A p \in Pollers : Retired(r)[p].alive = poller[p].alive
                              /\ Retired(r)[p].permit = poller[p].permit
BY DEF TypeOK, Retired, PollerStates

(* A poller starts under the permit that no other one alive holds.         *)
LEMMA ResumeLone ==
    ASSUME TypeOK, Lone, UNCHANGED <<running, permit>>, NEW s \in Sources, NEW x \in SourceStates,
           Serves(src[s]), ~x.stop, x.permit = src[s].permit, NEW r, Resume(s, x, r)
    PROVE  Lone'
<1>1. s = running /\ x.permit = permit /\ permit # None
  BY DEF Lone, Owned
<1>2. CASE CanStart(x)
  <2> DEFINE p == Any(FreePollers)
             fresh == [alive |-> TRUE, permit |-> x.permit, sql |-> x.sql,
                       stop |-> FALSE, era |-> None]
             y == [x EXCEPT !.poller = p]
  <2>1. p \in Pollers /\ PermitFree(permit)
    BY <1>1, <1>2, AnyMember DEF CanStart, FreePollers
  <2>2. poller' = [Retired(r) EXCEPT ![p] = fresh] /\ src' = [src EXCEPT ![s] = y]
    BY <1>2 DEF Resume
  <2>3. \A q \in Pollers : ~poller[q].alive
    BY <2>1 DEF PermitFree, Lone, Permitted
  <2>4. fresh.alive /\ fresh.permit = permit
    BY <1>1
  <2>5. y.permit = permit
    BY <1>1 DEF SourceStates
  <2> HIDE DEF p, fresh, y
  <2>6. \A q \in Pollers : poller'[q].alive => q = p /\ poller'[q].permit = permit
    BY <2>1, <2>2, <2>3, <2>4, RetiredType, RetiredAlive
  <2>7. \A t \in Sources : Serves(src'[t]) => t = running /\ src'[t].permit = permit
    BY <1>1, <2>2, <2>5 DEF TypeOK, Lone, Owned
  <2> QED
    BY <1>1, <2>6, <2>7 DEF Lone, Permitted, Owned, OnePoller
<1>3. CASE ~CanStart(x)
  <2>1. poller' = Retired(r) /\ src' = [src EXCEPT ![s] = x]
    BY <1>3 DEF Resume
  <2>2. \A t \in Sources : Serves(src'[t]) => Serves(src[t]) /\ src'[t].permit = src[t].permit
    BY <2>1 DEF TypeOK
  <2> QED
    BY <2>1, <2>2, RetiredAlive, NoneStarted
<1> QED
  BY <1>2, <1>3

LEMMA SourceStepLone ==
    ASSUME TypeOK, Shape, Lone, NEW s \in Sources, Source(s) PROVE Lone'
<1>1. src[s] \in SourceStates
  BY DEF TypeOK
<1>2. ASSUME NEW x, src' = [src EXCEPT ![s] = x], UNCHANGED <<running, permit>>,
             Serves(x) => Serves(src[s]) /\ x.permit = src[s].permit,
             poller' = poller \/ \E r : poller' = Retired(r)
      PROVE  Lone'
  <2>1. \A p \in Pollers : poller'[p].alive => poller[p].alive /\ poller'[p].permit = poller[p].permit
    BY <1>2, RetiredAlive
  <2>2. \A t \in Sources : Serves(src'[t]) => Serves(src[t]) /\ src'[t].permit = src[t].permit
    BY <1>2 DEF TypeOK
  <2> QED
    BY <1>2, <2>1, <2>2, NoneStarted
<1>3. CASE Connect(s)
  <2> DEFINE x == [src[s] EXCEPT !.at = "greeting", !.conn = Any(FreeConns)]
  <2>1. src' = [src EXCEPT ![s] = x] /\ src[s].at = "away" /\ UNCHANGED <<running, permit, poller>>
    BY <1>1, <1>3 DEF Connect, TypeOK
  <2>2. Serves(x) => Serves(src[s]) /\ x.permit = src[s].permit
    BY <1>1, <2>1 DEF Serves, SourceStates
  <2> HIDE DEF x
  <2> QED
    BY <1>2, <2>1, <2>2
<1>4. CASE ConnectRefused(s)
  BY <1>4, NoneStarted DEF ConnectRefused
<1>5. CASE OnWelcome(s)
  <2> DEFINE x == Greeted(src[s], Head(conn[src[s].conn].down).notice)
  <2>1. src' = [src EXCEPT ![s] = x] /\ src[s].at = "greeting" /\ UNCHANGED <<running, permit, poller>>
    BY <1>5 DEF OnWelcome
  <2>2. Serves(x) => Serves(src[s]) /\ x.permit = src[s].permit
    BY <1>1, <2>1 DEF Serves, SourceStates, Greeted
  <2> HIDE DEF x
  <2> QED
    BY <1>2, <2>1, <2>2
<1>6. CASE OnState(s)
  <2> DEFINE n == Head(conn[src[s].conn].down).notice
             told == [src[s] EXCEPT !.epoch = n.epoch, !.collecting = n.collecting,
                                    !.awaiting = IF n.changed THEN "asked" ELSE src[s].awaiting]
             afresh == [told EXCEPT !.poller = None, !.out = None]
  <2>1. Hears(s, "state") /\ src[s].at = "open" /\ UNCHANGED <<running, permit>>
    BY <1>6 DEF OnState
  <2>6. Resume(s, afresh, src[s].poller) \/ Resume(s, told, None)
    BY <1>6 DEF OnState
  <2>2. Serves(src[s])
    BY <2>1 DEF Serves, Hears
  <2>3. n \in Notice
    <3>1. src[s].conn \in Conns
      BY <2>1 DEF Shape, Whole
    <3> QED
      BY <2>1, <3>1, HearsType
  <2>4. told \in SourceStates /\ ~told.stop /\ told.permit = src[s].permit
    BY <1>1, <2>2, <2>3 DEF SourceStates, Notice, Serves
  <2> HIDE DEF told
  <2>5. afresh \in SourceStates /\ ~afresh.stop /\ afresh.permit = src[s].permit
    BY <2>4 DEF SourceStates
  <2> HIDE DEF afresh
  <2> QED
    BY <2>1, <2>2, <2>4, <2>5, <2>6, ResumeLone
<1>7. CASE OnClose(s) \/ OnLost(s)
  <2> DEFINE x == Away(src[s])
  <2>1. src' = [src EXCEPT ![s] = x] /\ src[s].at # "none" /\ UNCHANGED <<running, permit>>
        /\ poller' = Retired(src[s].poller)
    BY <1>7 DEF OnClose, OnLost, Hears
  <2>2. Serves(x) => Serves(src[s]) /\ x.permit = src[s].permit
    BY <1>1, <2>1 DEF Serves, SourceStates, Away
  <2> HIDE DEF x
  <2> QED
    BY <1>2, <2>1, <2>2
<1>8. CASE OnConfirmed(s) \/ OnSlotFree(s)
  <2> DEFINE x == [src[s] EXCEPT !.awaiting = "no"]
  <2>1. /\ Resume(s, x, None) \/ Resume(s, src[s], None)
        /\ src[s].at = "open" /\ ~src[s].stop /\ UNCHANGED <<running, permit>>
    BY <1>8 DEF OnConfirmed, OnSlotFree, CanStart, Wants
  <2>2. x \in SourceStates /\ ~x.stop /\ x.permit = src[s].permit /\ Serves(src[s])
    BY <1>1, <2>1 DEF SourceStates, Serves
  <2> HIDE DEF x
  <2> QED
    BY <1>1, <2>1, <2>2, ResumeLone
<1>9. CASE Send(s)
  <2> DEFINE x == [src[s] EXCEPT !.out = None]
  <2>1. src' = [src EXCEPT ![s] = x] /\ UNCHANGED <<running, permit, poller>>
    BY <1>1, <1>9 DEF Send, TypeOK
  <2>2. Serves(x) => Serves(src[s]) /\ x.permit = src[s].permit
    BY <1>1 DEF Serves, SourceStates
  <2> HIDE DEF x
  <2> QED
    BY <1>2, <2>1, <2>2
<1>10. CASE OnStop(s)
  <2>1. src' = [src EXCEPT ![s] = NoSource] /\ UNCHANGED <<running, permit>>
        /\ poller' = Retired(src[s].poller)
    BY <1>10 DEF OnStop
  <2>2. ~Serves(NoSource)
    BY DEF Serves, NoSource
  <2> QED
    BY <1>2, <2>1, <2>2
<1> QED
  BY <1>3, <1>4, <1>5, <1>6, <1>7, <1>8, <1>9, <1>10 DEF Source, Incoming

(* A fetch that is applied passes the permit on while a poller holds it.   *)
LEMMA FetchLone == ASSUME TypeOK, Lone, FetchApplied PROVE Lone'
<1> DEFINE told == [s \in Sources |->
                      [src[s] EXCEPT !.awaiting = IF src[s].awaiting = "covered"
                                                  THEN "confirmed" ELSE src[s].awaiting,
                                     !.stop = src[s].stop \/ (s = running /\ ~Unchanged(fetch))]]
<1>1. \A t \in Sources : /\ told[t].permit = src[t].permit
                         /\ Serves(told[t]) <=> Serves(src[t]) /\ ~(t = running /\ ~Unchanged(fetch))
  <2> SUFFICES ASSUME NEW t \in Sources
               PROVE  /\ told[t].permit = src[t].permit
                      /\ Serves(told[t]) <=> Serves(src[t]) /\ ~(t = running /\ ~Unchanged(fetch))
    OBVIOUS
  <2>1. src[t] \in SourceStates
    BY DEF TypeOK
  <2> QED
    BY <2>1 DEF SourceStates, Serves
<1>2. told \in [Sources -> {told[t] : t \in Sources}] /\ poller' = poller
  BY DEF FetchApplied
<1>3. \A p \in Pollers : poller[p].alive => Retained(fetch) = permit /\ permit # None
  BY DEF Lone, Permitted, Retained, PermitFree
<1>4. Retained(fetch) \in {permit, None} /\ (fetch.on => Retained(fetch) = permit)
  BY DEF Retained
<1>5. CASE Unchanged(fetch)
  <2>1. src' = told /\ running' = running /\ permit' = permit
    BY <1>4, <1>5 DEF FetchApplied, Unchanged
  <2> HIDE DEF told
  <2> QED
    BY <1>1, <1>2, <2>1, NoneStarted
<1>6. CASE ~Unchanged(fetch) /\ ~fetch.on
  <2>1. src' = told /\ running' = None /\ permit' = Retained(fetch)
    BY <1>6 DEF FetchApplied
  <2> HIDE DEF told
  <2>2. \A t \in Sources : ~Serves(src'[t])
    BY <1>1, <1>6, <2>1 DEF Lone, Owned
  <2> QED
    BY <1>2, <1>3, <2>1, <2>2 DEF Lone, Permitted, Owned, OnePoller
<1>7. CASE ~Unchanged(fetch) /\ fetch.on
  <2> DEFINE s == Any(FreeSources)
             k == IF Retained(fetch) # None THEN Retained(fetch) ELSE Any(NewPermits)
             new == [NoSource EXCEPT !.at = "away", !.sql = fetch.sql, !.permit = k]
  <2>1. /\ FreeSources # {} /\ (Retained(fetch) # None \/ NewPermits # {})
        /\ src' = [told EXCEPT ![s] = new] /\ running' = s /\ permit' = k
    BY <1>7 DEF FetchApplied
  <2>2. k # None
    BY <2>1, AnyMember, BridgeAssumption DEF NewPermits, Permits
  <2>3. new.permit = k
    BY DEF NoSource
  <2>4. Retained(fetch) # None => k = permit
    BY <1>4
  <2> HIDE DEF told, s, k, new
  <2>5. \A t \in Sources : Serves(src'[t]) => t = s /\ src'[t].permit = k
    BY <1>1, <1>2, <1>7, <2>1, <2>3 DEF Lone, Owned
  <2>6. \A p \in Pollers : poller'[p].alive => poller'[p].permit = k
    BY <1>2, <1>3, <2>4 DEF Lone, Permitted
  <2> QED
    BY <1>2, <2>1, <2>2, <2>5, <2>6 DEF Lone, Permitted, Owned, OnePoller
<1> QED
  BY <1>5, <1>6, <1>7

LEMMA StepLone == TypeOK /\ Shape /\ Lone /\ [Next]_vars => Lone'
<1> SUFFICES ASSUME TypeOK, Shape, Lone, [Next]_vars PROVE Lone'
  OBVIOUS
<1> USE DEF bridgeVars
<1>1. CASE Collection \/ Registry
  <2>1. UNCHANGED <<src, poller, running, permit>>
    <3>1. CASE CollectionStopped
      BY <3>1 DEF CollectionStopped
    <3>2. CASE CollectionStarting \/ CollectionStarted \/ CollectionFaulted
      BY <3>2 DEF CollectionStarting, CollectionStarted, CollectionFaulted
    <3>3. CASE Save \/ Commit
      BY <3>3 DEF Save, Commit
    <3> QED
      BY <1>1, <3>1, <3>2, <3>3 DEF Collection, Registry
  <2> QED
    BY <2>1, NoneStarted
<1>2. ASSUME NEW c \in Conns, Stream(c) \/ Break(c) PROVE Lone'
  BY <1>2, NoneStarted DEF Stream, SendState, HubEnds, HubLoses, Leave, HandleValues, Break
<1>3. ASSUME NEW p \in Pollers, Poller(p) PROVE Lone'
  <2>1. UNCHANGED <<running, permit>>
    BY <1>3 DEF Poller, QueryBegins, QueryEnds, PollerStops
  <2>2. \A q \in Pollers : poller'[q].alive => poller[q].alive /\ poller'[q].permit = poller[q].permit
    BY <1>3 DEF Poller, QueryBegins, QueryEnds, PollerStops, Idle, TypeOK, PollerStates
  <2>3. \A s \in Sources : Serves(src'[s]) => Serves(src[s]) /\ src'[s].permit = src[s].permit
    <3>1. CASE QueryBegins(p) \/ PollerStops(p)
      BY <3>1 DEF QueryBegins, PollerStops
    <3>2. ASSUME QueryEnds(p), NEW s \in Sources PROVE Serves(src'[s]) <=> Serves(src[s])
      <4>1. src[s] \in SourceStates
        BY DEF TypeOK
      <4>2. \/ src'[s] = src[s]
            \/ src'[s] = [src[s] EXCEPT !.out = [sql |-> poller[p].sql, era |-> poller[p].era]]
        BY <3>2 DEF QueryEnds
      <4> QED
        BY <4>1, <4>2 DEF SourceStates, Serves
    <3>3. ASSUME QueryEnds(p), NEW s \in Sources PROVE src'[s].permit = src[s].permit
      <4>1. src[s] \in SourceStates
        BY DEF TypeOK
      <4>2. \/ src'[s] = src[s]
            \/ src'[s] = [src[s] EXCEPT !.out = [sql |-> poller[p].sql, era |-> poller[p].era]]
        BY <3>3 DEF QueryEnds
      <4> QED
        BY <4>1, <4>2 DEF SourceStates
    <3> QED
      BY <1>3, <3>1, <3>2, <3>3 DEF Poller
  <2> QED
    BY <2>1, <2>2, <2>3, NoneStarted
<1>4. ASSUME NEW s \in Sources, Source(s) PROVE Lone'
  BY <1>4, SourceStepLone
<1>5. CASE TimerFires \/ FetchFails
  BY <1>5, NoneStarted DEF TimerFires, FetchFails
<1>6. CASE FetchBegins
  <2>1. \A s \in Sources : Serves(src'[s]) => Serves(src[s]) /\ src'[s].permit = src[s].permit
    BY <1>6 DEF FetchBegins, TypeOK, SourceStates, Serves
  <2> QED
    BY <1>6, <2>1, NoneStarted DEF FetchBegins
<1>7. CASE FetchApplied
  BY <1>7, FetchLone
<1>8. CASE UNCHANGED vars
  BY <1>8, NoneStarted DEF vars
<1> QED
  BY <1>1, <1>2, <1>3, <1>4, <1>5, <1>6, <1>7, <1>8 DEF Next, Supervisor

(* However the source is replaced and the stream opened again, one poller  *)
(* of the connection at a time queries the database.                       *)
THEOREM OnePollerAlways == Spec => []OnePoller
<1>1. Init => TypeOK /\ Shape /\ Lone
  BY InitTypeOK, InitShape DEF Init, Idle, NoSource, Lone, Permitted, Owned, Serves, OnePoller
<1>2. Lone => OnePoller
  BY DEF Lone
<1> QED
  BY <1>1, <1>2, StepTypes, StepLone, PTL DEF Spec

-----------------------------------------------------------------------------
(***************************************************************************)
(* Epochs: what is under way was begun no later than the slot's epoch and  *)
(* no earlier than the epoch that it names.                                *)
(***************************************************************************)

UpInTime(q, n) == \A i \in 1..Len(q) : q[i].epoch <= q[i].reading.era /\ q[i].reading.era <= n
DownInTime(q, n) == \A i \in 1..Len(q) : q[i].op # "close" => q[i].notice.epoch <= n

(* Only the WebSocket registered last is ever registered.                  *)
Registered == slot.reg \in {None, newest}

NoticeInTime == slot.notice.epoch <= slot.epoch

StreamsInTime ==
    \A c \in Conns : UpInTime(conn[c].up, slot.epoch) /\ DownInTime(conn[c].down, slot.epoch)

PollersInTime == \A p \in Pollers : poller[p].era # None => poller[p].era <= slot.epoch

InTime(x, ps, n) ==
    /\ x.epoch <= n
    /\ x.out # None => x.epoch <= x.out.era /\ x.out.era <= n
    /\ x.poller # None /\ ps[x.poller].era # None => x.epoch <= ps[x.poller].era
    /\ x.at # "open" => x.out = None /\ x.poller = None

SourcesInTime == \A s \in Sources : InTime(src[s], poller, slot.epoch)

Timely == Registered /\ NoticeInTime /\ StreamsInTime /\ PollersInTime /\ SourcesInTime

(* A commit leaves the slot alone or turns it.                             *)
Turned(note, reg) ==
    slot' = [slot EXCEPT !.held = None, !.epoch = slot.epoch + 1, !.notice = note, !.reg = reg]

LEMMA TurnedSlot ==
    ASSUME TypeOK, NEW note, NEW reg, Turned(note, reg)
    PROVE  /\ slot'.epoch = slot.epoch + 1 /\ slot'.held = None
           /\ slot'.notice = note /\ slot'.reg = reg
BY DEF TypeOK, Turned, SlotStates

LEMMA Committing ==
    ASSUME TypeOK, Commit
    PROVE  \/ UNCHANGED <<slot, conn>>
           \/ /\ slot'.epoch = slot.epoch + 1 /\ slot'.held = None
              /\ slot'.notice.epoch = slot.epoch + 1 /\ slot'.reg \in {None, slot.reg}
              /\ conn' = Unread(conn) \/ conn' = Unread(EndWs(conn, "changed"))
<1>1. PICK r \in 2..Len(saves) :
        LET bridge == saves[r].sql # Committed.sql
            switched == saves[r].on # Committed.on
        IN  /\ saves' = Since(r)
            /\ skipped' = (skipped \/ (r > 2 /\ ~bridge))
            /\ IF bridge \/ switched
               THEN /\ slot' = [slot EXCEPT !.held = None, !.epoch = slot.epoch + 1,
                                            !.notice = Notify(bridge, Collecting, slot.epoch + 1),
                                            !.reg = IF switched THEN None ELSE slot.reg]
                    /\ conn' = Unread(IF switched THEN EndWs(conn, "changed") ELSE conn)
                    /\ folded' = (folded \/ (Folds(bridge) /\ ~switched))
               ELSE UNCHANGED <<slot, conn, folded>>
  BY Zenon DEF Commit, bridgeVars
<1> DEFINE bridge == saves[r].sql # Committed.sql
           switched == saves[r].on # Committed.on
           note == Notify(bridge, Collecting, slot.epoch + 1)
           reg == IF switched THEN None ELSE slot.reg
<1>2. CASE bridge \/ switched
  <2>1. Turned(note, reg)
    BY <1>1, <1>2 DEF Turned
  <2>2. slot'.epoch = slot.epoch + 1 /\ slot'.held = None /\ slot'.notice = note /\ slot'.reg = reg
    <3> HIDE DEF note, reg
    <3> QED
      BY <2>1, TurnedSlot
  <2>3. note.epoch = slot.epoch + 1
    BY DEF Notify
  <2>4. conn' = Unread(conn) \/ conn' = Unread(EndWs(conn, "changed"))
    BY <1>1, <1>2
  <2> QED
    BY <2>2, <2>3, <2>4
<1>3. CASE ~(bridge \/ switched)
  BY <1>1, <1>3
<1> QED
  BY <1>2, <1>3

(* Only the Hub's own turns and commits move the epoch, one at a time.     *)
LEMMA TurnOfEpoch ==
    ASSUME TypeOK, Collection \/ Registry
    PROVE  slot'.epoch \in {slot.epoch, slot.epoch + 1}
<1>1. slot \in SlotStates
  BY DEF TypeOK
<1>2. ASSUME CollectionStopped PROVE slot'.epoch = slot.epoch + 1
  <2>1. slot' = [slot EXCEPT !.held = None, !.epoch = slot.epoch + 1, !.collecting = FALSE,
                             !.notice = Notify(FALSE, FALSE, slot.epoch + 1)]
    BY <1>2 DEF CollectionStopped
  <2> QED
    BY <1>1, <2>1 DEF SlotStates
<1>3. ASSUME CollectionStarting PROVE slot'.epoch = slot.epoch + 1
  <2>1. slot' = [slot EXCEPT !.held = None, !.epoch = slot.epoch + 1]
    BY <1>3 DEF CollectionStarting
  <2> QED
    BY <1>1, <2>1 DEF SlotStates
<1>4. ASSUME CollectionStarted PROVE slot'.epoch = slot.epoch
  <2>1. slot' = [slot EXCEPT !.collecting = TRUE, !.notice = Notify(FALSE, TRUE, slot.epoch)]
    BY <1>4 DEF CollectionStarted
  <2> QED
    BY <1>1, <2>1 DEF SlotStates
<1>5. ASSUME CollectionFaulted \/ Save PROVE slot'.epoch = slot.epoch
  BY <1>5 DEF CollectionFaulted, Save
<1>6. ASSUME Commit PROVE slot'.epoch \in {slot.epoch, slot.epoch + 1}
  BY <1>6, Committing
<1> QED
  BY <1>2, <1>3, <1>4, <1>5, <1>6 DEF Collection, Registry

LEMMA StreamsKeepEpoch ==
    ASSUME TypeOK, NEW c \in Conns, Stream(c) \/ Break(c)
    PROVE  slot'.epoch = slot.epoch
<1>1. slot \in SlotStates
  BY DEF TypeOK
<1>2. ASSUME NEW w, Leave(c, w) PROVE slot'.epoch = slot.epoch
  BY <1>1, <1>2 DEF Leave, SlotStates
<1>3. ASSUME HandleValues(c) PROVE slot'.epoch = slot.epoch
  BY <1>1, <1>3 DEF HandleValues, Applied, SlotStates
<1>4. ASSUME SendState(c) \/ Break(c) PROVE slot'.epoch = slot.epoch
  BY <1>4 DEF SendState, Break, hubVars
<1> QED
  BY <1>2, <1>3, <1>4 DEF Stream, HubEnds, HubLoses

LEMMA SourcesKeepEpoch ==
    ASSUME TypeOK, NEW s \in Sources, Source(s)
    PROVE  slot'.epoch = slot.epoch
<1>1. slot \in SlotStates
  BY DEF TypeOK
<1>2. ASSUME Connect(s) PROVE slot'.epoch = slot.epoch
  <2>1. slot' = [slot EXCEPT !.reg = Any(FreeConns)]
    BY <1>2 DEF Connect
  <2> QED
    BY <1>1, <2>1 DEF SlotStates
<1>3. ASSUME ConnectRefused(s) PROVE slot'.epoch = slot.epoch
  BY <1>3 DEF ConnectRefused, hubVars
<1>4. ASSUME Incoming(s) PROVE slot'.epoch = slot.epoch
  BY <1>4 DEF Incoming, OnWelcome, OnState, OnClose, OnLost, hubVars
<1>5. ASSUME OnConfirmed(s) \/ OnSlotFree(s) \/ Send(s) \/ OnStop(s) PROVE slot'.epoch = slot.epoch
  BY <1>5 DEF OnConfirmed, OnSlotFree, Send, OnStop, hubVars
<1> QED
  BY <1>2, <1>3, <1>4, <1>5 DEF Source

(* How the streams keep in time.                                           *)
LEMMA UpLater ==
    ASSUME NEW q \in Seq(Values), NEW n \in Nat, NEW m \in Nat, n <= m, UpInTime(q, n)
    PROVE  UpInTime(q, m)
<1> SUFFICES ASSUME NEW i \in 1..Len(q) PROVE q[i].epoch <= q[i].reading.era /\ q[i].reading.era <= m
  BY DEF UpInTime
<1>1. q[i] \in Values /\ q[i].reading.era <= n /\ q[i].epoch <= q[i].reading.era
  BY DEF UpInTime
<1> QED
  BY <1>1 DEF Values, Readings, Epochs

LEMMA DownLater ==
    ASSUME NEW q \in Seq(Messages), NEW n \in Nat, NEW m \in Nat, n <= m, DownInTime(q, n)
    PROVE  DownInTime(q, m)
<1> SUFFICES ASSUME NEW i \in 1..Len(q), q[i].op # "close" PROVE q[i].notice.epoch <= m
  BY DEF DownInTime
<1>1. q[i] \in Messages /\ q[i].notice.epoch <= n
  BY DEF DownInTime
<1> QED
  BY <1>1 DEF Messages, Notice, Epochs

LEMMA UpAppend ==
    ASSUME NEW q \in Seq(Values), NEW n, UpInTime(q, n), NEW v \in Values,
           v.epoch <= v.reading.era, v.reading.era <= n
    PROVE  UpInTime(Append(q, v), n)
BY DEF UpInTime

LEMMA UpTail ==
    ASSUME NEW q \in Seq(Values), NEW n, UpInTime(q, n), q # <<>>
    PROVE  UpInTime(Tail(q), n) /\ Head(q).epoch <= Head(q).reading.era /\ Head(q).reading.era <= n
BY DEF UpInTime

LEMMA DownAppend ==
    ASSUME NEW q \in Seq(Messages), NEW n, DownInTime(q, n), NEW v \in Messages,
           v.op # "close" => v.notice.epoch <= n
    PROVE  DownInTime(Append(q, v), n)
BY DEF DownInTime

LEMMA DownTail ==
    ASSUME NEW q \in Seq(Messages), NEW n, DownInTime(q, n), q # <<>>
    PROVE  DownInTime(Tail(q), n) /\ (Head(q).op # "close" => Head(q).notice.epoch <= n)
BY DEF DownInTime

LEMMA EmptyInTime == \A n : UpInTime(<<>>, n) /\ DownInTime(<<>>, n)
BY DEF UpInTime, DownInTime

(* What is in time stays so as the epoch moves on.                         *)
NoEarlier == slot.epoch \in Nat /\ slot'.epoch \in Nat /\ slot.epoch <= slot'.epoch

LEMMA StreamLater ==
    ASSUME TypeOK, StreamsInTime, NoEarlier, NEW d \in Conns,
           conn'[d].up = conn[d].up, conn'[d].down = conn[d].down
    PROVE  UpInTime(conn'[d].up, slot'.epoch) /\ DownInTime(conn'[d].down, slot'.epoch)
<1>1. conn[d].up \in Seq(Values) /\ conn[d].down \in Seq(Messages)
  BY DEF TypeOK, ConnStates
<1>2. UpInTime(conn[d].up, slot.epoch) /\ DownInTime(conn[d].down, slot.epoch)
  BY DEF StreamsInTime
<1>3. UpInTime(conn[d].up, slot'.epoch)
  BY <1>1, <1>2, UpLater DEF NoEarlier
<1>4. DownInTime(conn[d].down, slot'.epoch)
  BY <1>1, <1>2, DownLater DEF NoEarlier
<1> QED
  BY <1>3, <1>4

LEMMA SameStreams ==
    ASSUME TypeOK, StreamsInTime, NoEarlier,
           \A d \in Conns : conn'[d].up = conn[d].up /\ conn'[d].down = conn[d].down
    PROVE  StreamsInTime'
<1>1. ASSUME NEW d \in Conns
      PROVE  UpInTime(conn'[d].up, slot'.epoch) /\ DownInTime(conn'[d].down, slot'.epoch)
  BY StreamLater
<1> QED
  BY <1>1 DEF StreamsInTime

LEMMA OneStream ==
    ASSUME TypeOK, StreamsInTime, NoEarlier, NEW c \in Conns,
           \A d \in Conns \ {c} : conn'[d].up = conn[d].up /\ conn'[d].down = conn[d].down,
           UpInTime(conn'[c].up, slot'.epoch), DownInTime(conn'[c].down, slot'.epoch)
    PROVE  StreamsInTime'
<1>1. ASSUME NEW d \in Conns
      PROVE  UpInTime(conn'[d].up, slot'.epoch) /\ DownInTime(conn'[d].down, slot'.epoch)
  <2>1. CASE d = c
    BY <2>1
  <2>2. CASE d # c
    BY <2>2, StreamLater
  <2> QED
    BY <2>1, <2>2
<1> QED
  BY <1>1 DEF StreamsInTime

(* What the Hub marks on its streams leaves what is on the way.            *)
LEMMA UnreadQueues ==
    ASSUME NEW cs \in [Conns -> ConnStates], NEW d \in Conns
    PROVE  Unread(cs)[d].up = cs[d].up /\ Unread(cs)[d].down = cs[d].down
BY DEF Unread, ConnStates

LEMMA EndWsQueues ==
    ASSUME TypeOK, NEW why, NEW d \in Conns
    PROVE  EndWs(conn, why)[d].up = conn[d].up /\ EndWs(conn, why)[d].down = conn[d].down
BY DEF EndWs, TypeOK, ConnStates

(* What is in time stays in time as the epoch moves on.                    *)
LEMMA InTimeLater ==
    ASSUME NEW x \in SourceStates, NEW ps, NEW n \in Nat, NEW m \in Nat, n <= m, InTime(x, ps, n)
    PROVE  InTime(x, ps, m)
BY DEF InTime, SourceStates, Readings, Epochs

(* ... and when a poller no longer has a query that counts.                *)
LEMMA InTimeFewer ==
    ASSUME NEW x \in SourceStates, NEW n, NEW ps, NEW qs,
           \A p \in Pollers : qs[p].era \in {None, ps[p].era}, InTime(x, ps, n)
    PROVE  InTime(x, qs, n)
BY DEF InTime, SourceStates

(* Sources and pollers that a step leaves alone stay in time.              *)
LEMMA SameSources ==
    ASSUME TypeOK, PollersInTime, SourcesInTime, NoEarlier, UNCHANGED <<src, poller>>
    PROVE  PollersInTime' /\ SourcesInTime'
<1>1. PollersInTime'
  BY DEF PollersInTime, NoEarlier, TypeOK, PollerStates, Epochs
<1>2. ASSUME NEW s \in Sources PROVE InTime(src'[s], poller', slot'.epoch)
  <2>1. src[s] \in SourceStates /\ InTime(src[s], poller, slot.epoch)
    BY DEF TypeOK, SourcesInTime
  <2>2. InTime(src[s], poller, slot'.epoch)
    BY <2>1, InTimeLater DEF NoEarlier
  <2> QED
    BY <2>2
<1> QED
  BY <1>1, <1>2 DEF SourcesInTime

(* The steps of the Hub.                                                   *)
LEMMA HubStepTime == ASSUME TypeOK, Timely, Collection \/ Registry PROVE Timely'
<1>1. slot \in SlotStates
  BY DEF TypeOK
<1>2. NoEarlier
  BY <1>1, TurnOfEpoch DEF SlotStates, Epochs, NoEarlier
<1>3. UNCHANGED <<src, poller, newest>>
  BY DEF Collection, CollectionStopped, CollectionStarting, CollectionStarted, CollectionFaulted,
         Registry, Save, Commit, bridgeVars
<1>4. /\ slot'.reg \in {None, slot.reg} /\ slot'.notice.epoch <= slot'.epoch
      /\ conn' = conn \/ conn' = Unread(conn) \/ conn' = Unread(EndWs(conn, "changed"))
  <2>1. CASE CollectionStopped
    <3>1. slot' = [slot EXCEPT !.held = None, !.epoch = slot.epoch + 1, !.collecting = FALSE,
                               !.notice = Notify(FALSE, FALSE, slot.epoch + 1)]
      BY <2>1 DEF CollectionStopped
    <3> QED
      BY <1>1, <2>1, <3>1 DEF CollectionStopped, SlotStates, Notify, Epochs
  <2>2. CASE CollectionStarting
    <3>1. slot' = [slot EXCEPT !.held = None, !.epoch = slot.epoch + 1] /\ conn' = conn
      BY <2>2 DEF CollectionStarting
    <3>2. slot.notice.epoch <= slot.epoch /\ slot.notice.epoch \in Nat
      BY <1>1 DEF Timely, NoticeInTime, SlotStates, Notice, Epochs
    <3> QED
      BY <1>1, <3>1, <3>2 DEF SlotStates, Epochs
  <2>3. CASE CollectionStarted
    <3>1. slot' = [slot EXCEPT !.collecting = TRUE, !.notice = Notify(FALSE, TRUE, slot.epoch)]
      BY <2>3 DEF CollectionStarted
    <3> QED
      BY <1>1, <2>3, <3>1 DEF CollectionStarted, SlotStates, Notify, Epochs
  <2>4. CASE CollectionFaulted \/ Save
    BY <2>4 DEF CollectionFaulted, Save, Timely, NoticeInTime
  <2>5. CASE Commit
    <3>1. CASE UNCHANGED <<slot, conn>>
      BY <3>1 DEF Timely, NoticeInTime
    <3>2. CASE slot'.notice.epoch = slot'.epoch
      BY <1>2, <2>5, <3>1, <3>2, Committing DEF NoEarlier
    <3> QED
      BY <2>5, <3>1, <3>2, Committing
  <2> QED
    BY <2>1, <2>2, <2>3, <2>4, <2>5 DEF Collection, Registry
<1>5. \A d \in Conns : conn'[d].up = conn[d].up /\ conn'[d].down = conn[d].down
  <2> SUFFICES ASSUME NEW d \in Conns
               PROVE  conn'[d].up = conn[d].up /\ conn'[d].down = conn[d].down
    OBVIOUS
  <2>1. conn \in [Conns -> ConnStates] /\ EndWs(conn, "changed") \in [Conns -> ConnStates]
    BY HubTypes DEF TypeOK
  <2> QED
    BY <1>4, <2>1, UnreadQueues, EndWsQueues
<1> QED
  BY <1>2, <1>3, <1>4, <1>5, SameStreams, SameSources DEF Timely, Registered, NoticeInTime

(* The steps of one WebSocket at the Hub, and a broken link.               *)
LEMMA StreamStepTime ==
    ASSUME TypeOK, Timely, NEW c \in Conns, Stream(c) \/ Break(c) PROVE Timely'
<1>1. slot \in SlotStates /\ conn \in [Conns -> ConnStates] /\ conn[c] \in ConnStates
  BY DEF TypeOK
<1>2. NoEarlier /\ slot'.epoch = slot.epoch
  BY <1>1, StreamsKeepEpoch DEF SlotStates, Epochs, NoEarlier
<1>3. UNCHANGED <<src, poller, newest>>
  BY DEF Stream, SendState, HubEnds, HubLoses, Leave, HandleValues, Break, bridgeVars
<1>4. UpInTime(conn[c].up, slot.epoch) /\ DownInTime(conn[c].down, slot.epoch)
  BY DEF Timely, StreamsInTime
<1>5. conn[c].up \in Seq(Values) /\ conn[c].down \in Seq(Messages)
  BY <1>1 DEF ConnStates
<1> DEFINE Fits ==
      /\ \A d \in Conns \ {c} : conn'[d].up = conn[d].up /\ conn'[d].down = conn[d].down
      /\ UpInTime(conn'[c].up, slot.epoch) /\ DownInTime(conn'[c].down, slot.epoch)
      /\ slot'.reg \in {None, slot.reg} /\ slot'.notice = slot.notice
<1>6. ASSUME SendState(c) PROVE Fits
  <2> DEFINE m == [op |-> "state", notice |-> slot.notice]
  <2>1. m \in Messages /\ m.notice.epoch <= slot.epoch
    BY <1>1 DEF SlotStates, Messages, Timely, NoticeInTime
  <2>2. DownInTime(Say(c, m), slot.epoch)
    BY <1>4, <1>5, <2>1, DownAppend, EmptyInTime DEF Say
  <2>3. conn'[c].up = conn[c].up /\ conn'[c].down = Say(c, m)
    BY <1>1, <1>6 DEF SendState, ConnStates
  <2>4. \A d \in Conns \ {c} : conn'[d] = conn[d]
    BY <1>1, <1>6 DEF SendState
  <2> QED
    BY <1>4, <1>6, <2>2, <2>3, <2>4 DEF SendState, hubVars
<1>7. ASSUME NEW why \in Reasons, Leave(c, why) PROVE Fits
  <2> DEFINE m == [op |-> "close", why |-> why]
  <2>1. m \in Messages /\ m.op = "close"
    BY DEF Messages
  <2>2. conn'[c].up = <<>> /\ conn'[c].down \in {Append(conn[c].down, m), <<>>}
    <3>1. CASE conn[c].bridge
      BY <1>1, <1>7, <3>1 DEF Leave, ConnStates
    <3>2. CASE ~conn[c].bridge
      BY <1>1, <1>7, <3>2 DEF Leave, Free
    <3> QED
      BY <3>1, <3>2
  <2>3. DownInTime(Append(conn[c].down, m), slot.epoch)
    BY <1>4, <1>5, <2>1, DownAppend
  <2>4. \A d \in Conns \ {c} : conn'[d] = conn[d]
    BY <1>1, <1>7 DEF Leave
  <2>5. slot' = [slot EXCEPT !.reg = OffRegister(c)] /\ OffRegister(c) \in {None, slot.reg}
    BY <1>7 DEF Leave, OffRegister
  <2>6. slot'.reg = OffRegister(c) /\ slot'.notice = slot.notice
    BY <1>1, <2>5 DEF SlotStates
  <2> HIDE DEF m
  <2> QED
    BY <2>2, <2>3, <2>4, <2>5, <2>6, EmptyInTime
<1>8. ASSUME HubEnds(c) \/ HubLoses(c) PROVE Fits
  <2>1. CASE HubEnds(c)
    <3>1. conn[c].ended \in Reasons
      BY <1>1, <2>1 DEF HubEnds, ConnStates, Reasons
    <3> HIDE DEF Fits
    <3> QED
      BY <1>7, <2>1, <3>1 DEF HubEnds
  <2>2. CASE HubLoses(c)
    <3> HIDE DEF Fits
    <3> QED
      BY <1>7, <2>2 DEF HubLoses, Reasons
  <2> QED
    BY <1>8, <2>1, <2>2
<1>9. ASSUME HandleValues(c) PROVE Fits
  <2>1. conn[c].up # <<>> /\ slot' = Applied(c, Head(conn[c].up))
        /\ conn' = [conn EXCEPT ![c].up = Tail(@)]
    BY <1>9 DEF HandleValues
  <2>2. UpInTime(Tail(conn[c].up), slot.epoch)
    BY <1>4, <1>5, <2>1, UpTail
  <2>3. conn'[c].up = Tail(conn[c].up) /\ conn'[c].down = conn[c].down
        /\ \A d \in Conns \ {c} : conn'[d] = conn[d]
    BY <1>1, <2>1 DEF ConnStates
  <2>4. slot'.reg = slot.reg /\ slot'.notice = slot.notice
    BY <1>1, <2>1 DEF Applied, SlotStates
  <2> QED
    BY <1>4, <2>2, <2>3, <2>4
<1>10. ASSUME Break(c) PROVE Fits
  <2>1. conn'[c].up \in {conn[c].up, <<>>} /\ conn'[c].down = <<>>
        /\ \A d \in Conns \ {c} : conn'[d] = conn[d]
    BY <1>1, <1>10 DEF Break, ConnStates, Free
  <2> QED
    BY <1>4, <1>10, <2>1, EmptyInTime DEF Break, hubVars
<1>11. Fits
  <2> HIDE DEF Fits
  <2> QED
    BY <1>6, <1>8, <1>9, <1>10 DEF Stream
<1>12. StreamsInTime'
  BY <1>2, <1>11, OneStream DEF Timely
<1> QED
  BY <1>2, <1>3, <1>11, <1>12, SameSources DEF Timely, Registered, NoticeInTime

(* The steps of the pollers.                                               *)
LEMMA PollerStepTime ==
    ASSUME TypeOK, Timely, NEW p \in Pollers, Poller(p) PROVE Timely'
<1> USE DEF hubVars
<1>1. /\ UNCHANGED <<slot, conn, newest>>
      /\ poller \in [Pollers -> PollerStates] /\ slot.epoch \in Epochs
  BY DEF Poller, QueryBegins, QueryEnds, PollerStops, TypeOK, SlotStates
<1>2. Registered' /\ NoticeInTime' /\ StreamsInTime'
  BY <1>1 DEF Timely, Registered, NoticeInTime, StreamsInTime
<1>3. \A s \in Sources : src[s] \in SourceStates /\ InTime(src[s], poller, slot.epoch)
  BY DEF TypeOK, Timely, SourcesInTime
<1>4. CASE QueryBegins(p)
  <2>1. poller' = [poller EXCEPT ![p].era = slot.epoch] /\ src' = src
    BY <1>4 DEF QueryBegins
  <2>2. \A q \in Pollers : poller'[q].era = IF q = p THEN slot.epoch ELSE poller[q].era
    BY <1>1, <2>1 DEF PollerStates
  <2>3. PollersInTime'
    BY <1>1, <2>2 DEF Timely, PollersInTime, Epochs
  <2>4. SourcesInTime'
    BY <1>1, <1>3, <2>1, <2>2 DEF SourcesInTime, InTime, SourceStates
  <2> QED
    BY <1>2, <2>3, <2>4 DEF Timely
<1>5. CASE QueryEnds(p)
  <2>1. \A q \in Pollers : poller'[q].era = IF q = p THEN None ELSE poller[q].era
    BY <1>1, <1>5 DEF QueryEnds, PollerStates
  <2>2. PollersInTime'
    BY <1>1, <2>1 DEF Timely, PollersInTime
  <2>3. ASSUME NEW s \in Sources PROVE InTime(src'[s], poller', slot'.epoch)
    <3>1. InTime(src[s], poller', slot.epoch)
      BY <1>3, <2>1, InTimeFewer
    <3>2. CASE src[s].poller = p
      <4>1. src'[s] = [src[s] EXCEPT !.out = [sql |-> poller[p].sql, era |-> poller[p].era]]
        BY <1>5, <3>2 DEF QueryEnds
      <4>2. poller[p].era # None /\ poller[p].era <= slot.epoch
        BY <1>5 DEF QueryEnds, Timely, PollersInTime
      <4>3. src[s].epoch <= poller[p].era /\ src[s].at = "open"
        BY <1>3, <3>2, <4>2, BridgeAssumption DEF InTime
      <4> QED
        BY <1>1, <1>3, <3>1, <4>1, <4>2, <4>3 DEF InTime, SourceStates
    <3>3. CASE src[s].poller # p
      <4>1. src'[s] = src[s]
        BY <1>5, <3>3 DEF QueryEnds
      <4> QED
        BY <1>1, <3>1, <4>1
    <3> QED
      BY <3>2, <3>3
  <2> QED
    BY <1>2, <2>2, <2>3 DEF Timely, SourcesInTime
<1>6. CASE PollerStops(p)
  <2>1. src' = src /\ \A q \in Pollers : poller'[q].era = IF q = p THEN None ELSE poller[q].era
    BY <1>1, <1>6 DEF PollerStops, Idle, PollerStates
  <2>2. PollersInTime'
    BY <1>1, <2>1 DEF Timely, PollersInTime
  <2>3. ASSUME NEW s \in Sources PROVE InTime(src'[s], poller', slot'.epoch)
    BY <1>1, <1>3, <2>1, InTimeFewer
  <2> QED
    BY <1>2, <2>2, <2>3 DEF Timely, SourcesInTime
<1> QED
  BY <1>4, <1>5, <1>6 DEF Poller

(* A handler of one source that at most forgets queries and starts none.   *)
LEMMA OneSource ==
    ASSUME TypeOK, PollersInTime, SourcesInTime, UNCHANGED slot, NEW s \in Sources, NEW x,
           src' = [src EXCEPT ![s] = x], InTime(x, poller', slot.epoch),
           \A p \in Pollers : poller'[p].era \in {None, poller[p].era}
    PROVE  PollersInTime' /\ SourcesInTime'
<1>1. PollersInTime'
  BY DEF PollersInTime
<1>2. ASSUME NEW t \in Sources PROVE InTime(src'[t], poller', slot'.epoch)
  <2>1. CASE t = s
    BY <2>1 DEF TypeOK
  <2>2. CASE t # s
    <3>1. src'[t] = src[t] /\ src[t] \in SourceStates /\ InTime(src[t], poller, slot.epoch)
      BY <2>2 DEF TypeOK, SourcesInTime
    <3> QED
      BY <3>1, InTimeFewer
  <2> QED
    BY <2>1, <2>2
<1> QED
  BY <1>1, <1>2 DEF SourcesInTime

LEMMA RetiredEras ==
    ASSUME TypeOK, NEW r
    PROVE  \A p \in Pollers : Retired(r)[p].era \in {None, poller[p].era}
BY DEF TypeOK, Retired, PollerStates

LEMMA ResumeTime ==
    ASSUME TypeOK, PollersInTime, SourcesInTime, UNCHANGED slot, NEW s \in Sources,
           NEW x \in SourceStates, InTime(x, poller, slot.epoch), NEW r, Resume(s, x, r)
    PROVE  PollersInTime' /\ SourcesInTime'
<1>1. CASE CanStart(x)
  <2> DEFINE p == Any(FreePollers)
             y == [x EXCEPT !.poller = p]
  <2>1. p \in Pollers
    BY <1>1, AnyMember DEF CanStart, FreePollers
  <2>2. /\ poller' = [Retired(r) EXCEPT
                        ![p] = [alive |-> TRUE, permit |-> x.permit, sql |-> x.sql,
                                stop |-> FALSE, era |-> None]]
        /\ src' = [src EXCEPT ![s] = y]
    BY <1>1 DEF Resume
  <2> HIDE DEF p
  <2>3. poller'[p].era = None
    BY <2>1, <2>2, RetiredType
  <2>4. \A q \in Pollers : poller'[q].era \in {None, poller[q].era}
    BY <2>1, <2>2, <2>3, RetiredType, RetiredEras
  <2>5. InTime(y, poller', slot.epoch)
    BY <1>1, <2>3 DEF InTime, CanStart, Wants, SourceStates
  <2> HIDE DEF y
  <2> QED
    BY <2>2, <2>4, <2>5, OneSource
<1>2. CASE ~CanStart(x)
  <2>1. poller' = Retired(r) /\ src' = [src EXCEPT ![s] = x]
    BY <1>2 DEF Resume
  <2>2. \A q \in Pollers : poller'[q].era \in {None, poller[q].era}
    BY <2>1, RetiredEras
  <2>3. InTime(x, poller', slot.epoch)
    BY <2>2, InTimeFewer
  <2> QED
    BY <2>1, <2>2, <2>3, OneSource
<1> QED
  BY <1>1, <1>2

(* What a source hears, and what it leaves behind.                         *)
LEMMA HeardTime ==
    ASSUME TypeOK, Timely, UNCHANGED slot, NEW s \in Sources,
           NEW op \in {"welcome", "state", "close"}, Hears(s, op), src[s].conn \in Conns,
           conn' = Heard(s)
    PROVE  /\ StreamsInTime'
           /\ op # "close" => Head(conn[src[s].conn].down).notice.epoch <= slot.epoch
<1> DEFINE c == src[s].conn
           d == conn[c].down
<1>1. conn[c] \in ConnStates /\ d \in Seq(Messages) /\ d # <<>> /\ Head(d).op = op
  BY DEF TypeOK, ConnStates, Hears
<1>2. UpInTime(conn[c].up, slot.epoch) /\ DownInTime(d, slot.epoch)
  BY DEF Timely, StreamsInTime
<1>3. DownInTime(Tail(d), slot.epoch) /\ (Head(d).op # "close" => Head(d).notice.epoch <= slot.epoch)
  BY <1>1, <1>2, DownTail
<1>4. conn'[c].up = conn[c].up /\ conn'[c].down = Tail(d) /\ \A e \in Conns \ {c} : conn'[e] = conn[e]
  BY <1>1 DEF Heard, TypeOK, ConnStates
<1>5. NoEarlier
  BY DEF NoEarlier, TypeOK, SlotStates, Epochs
<1> HIDE DEF c, d
<1>6. c \in Conns
  BY DEF c
<1>7. UpInTime(conn'[c].up, slot'.epoch) /\ DownInTime(conn'[c].down, slot'.epoch)
  BY <1>2, <1>3, <1>4
<1>8. StreamsInTime'
  BY <1>4, <1>5, <1>6, <1>7, OneStream DEF Timely
<1> QED
  BY <1>1, <1>3, <1>8 DEF c, d

LEMMA DetachedTime ==
    ASSUME TypeOK, Timely, UNCHANGED slot, NEW c \in Conns, conn' = Detached(c)
    PROVE  StreamsInTime'
<1>1. conn[c] \in ConnStates /\ NoEarlier
  BY DEF TypeOK, NoEarlier, SlotStates, Epochs
<1>2. conn'[c].up \in {conn[c].up, <<>>} /\ conn'[c].down = <<>>
      /\ \A d \in Conns \ {c} : conn'[d] = conn[d]
  BY <1>1 DEF Detached, TypeOK, ConnStates, Free
<1>3. UpInTime(conn[c].up, slot.epoch)
  BY DEF Timely, StreamsInTime
<1> QED
  BY <1>1, <1>2, <1>3, EmptyInTime, OneStream DEF Timely

(* The steps of a source that follow what it hears.                        *)
LEMMA IncomingTime ==
    ASSUME TypeOK, Shape, Timely, NEW s \in Sources, Incoming(s) PROVE Timely'
<1> USE DEF hubVars, bridgeVars
<1> DEFINE c == src[s].conn
           n == Head(conn[c].down).notice
<1>1. UNCHANGED <<slot, newest>> /\ src[s].at \in {"greeting", "open"}
  BY DEF Incoming, OnWelcome, OnState, OnClose, OnLost, Hears
<1>2. Registered' /\ NoticeInTime'
  BY <1>1 DEF Timely, Registered, NoticeInTime
<1>3. /\ src[s] \in SourceStates /\ c \in Conns
      /\ PollersInTime /\ SourcesInTime /\ InTime(src[s], poller, slot.epoch)
      /\ slot.epoch \in Nat
  BY <1>1 DEF TypeOK, Shape, Whole, Timely, SourcesInTime, SlotStates, Epochs
<1>4. CASE OnWelcome(s)
  <2>1. Hears(s, "welcome") /\ src[s].at = "greeting" /\ conn' = Heard(s) /\ poller' = poller
        /\ src' = [src EXCEPT ![s] = Greeted(src[s], n)]
    BY <1>4 DEF OnWelcome
  <2>2. StreamsInTime' /\ n.epoch <= slot.epoch
    BY <1>1, <1>3, <2>1, HeardTime
  <2>3. InTime(Greeted(src[s], n), poller', slot.epoch)
    BY <1>3, <2>1, <2>2 DEF Greeted, InTime, SourceStates
  <2> HIDE DEF n
  <2>4. PollersInTime' /\ SourcesInTime'
    BY <1>1, <1>3, <2>1, <2>3, OneSource
  <2> QED
    BY <1>2, <2>2, <2>4 DEF Timely
<1>5. CASE OnState(s)
  <2> DEFINE told == [src[s] EXCEPT !.epoch = n.epoch, !.collecting = n.collecting,
                                    !.awaiting = IF n.changed THEN "asked" ELSE src[s].awaiting]
             again == n.epoch # src[s].epoch \/ n.collecting # src[s].collecting \/ n.changed
             afresh == [told EXCEPT !.poller = None, !.out = None]
  <2>1. Hears(s, "state") /\ src[s].at = "open" /\ conn' = Heard(s)
        /\ IF again THEN Resume(s, afresh, src[s].poller) ELSE Resume(s, told, None)
    BY <1>5 DEF OnState
  <2>2. StreamsInTime' /\ n.epoch <= slot.epoch /\ n \in Notice
    BY <1>1, <1>3, <2>1, HeardTime, HearsType
  <2>3. told \in SourceStates
    BY <1>3, <2>2 DEF SourceStates, Notice
  <2>4. CASE again
    <3>1. InTime(afresh, poller, slot.epoch) /\ afresh \in SourceStates
      <4>1. told.epoch <= slot.epoch
        BY <1>3, <2>2 DEF SourceStates
      <4> HIDE DEF told
      <4> QED
        BY <2>3, <4>1 DEF InTime, SourceStates
    <3>2. Resume(s, afresh, src[s].poller)
      BY <2>1, <2>4
    <3> HIDE DEF afresh
    <3>3. PollersInTime' /\ SourcesInTime'
      BY <1>1, <1>3, <3>1, <3>2, ResumeTime
    <3> QED
      BY <1>2, <2>2, <3>3 DEF Timely
  <2>5. CASE ~again
    <3>1. InTime(told, poller, slot.epoch)
      BY <1>3, <2>5 DEF InTime, SourceStates
    <3>2. Resume(s, told, None)
      BY <2>1, <2>5
    <3> HIDE DEF told
    <3>3. PollersInTime' /\ SourcesInTime'
      BY <1>1, <1>3, <2>3, <3>1, <3>2, ResumeTime
    <3> QED
      BY <1>2, <2>2, <3>3 DEF Timely
  <2> QED
    BY <2>4, <2>5
<1>6. CASE OnClose(s) \/ OnLost(s)
  <2>1. /\ src' = [src EXCEPT ![s] = Away(src[s])] /\ poller' = Retired(src[s].poller)
        /\ conn' = Detached(c) \/ conn' = conn
    BY <1>6 DEF OnClose, OnLost
  <2>2. StreamsInTime'
    <3>1. CASE conn' = Detached(c)
      BY <1>1, <1>3, <3>1, DetachedTime
    <3>2. CASE conn' = conn
      BY <1>1, <3>2 DEF Timely, StreamsInTime
    <3> QED
      BY <2>1, <3>1, <3>2
  <2>3. InTime(Away(src[s]), poller', slot.epoch)
    BY <1>3 DEF InTime, Away, SourceStates
  <2>4. PollersInTime' /\ SourcesInTime'
    BY <1>1, <1>3, <2>1, <2>3, RetiredEras, OneSource
  <2> QED
    BY <1>2, <2>2, <2>4 DEF Timely
<1> QED
  BY <1>4, <1>5, <1>6 DEF Incoming

LEMMA SourceStepTime ==
    ASSUME TypeOK, Shape, Timely, NEW s \in Sources, Source(s) PROVE Timely'
<1> USE DEF hubVars, bridgeVars
<1> DEFINE c == src[s].conn
<1>1. /\ src[s] \in SourceStates /\ slot \in SlotStates /\ slot.epoch \in Nat
      /\ PollersInTime /\ SourcesInTime /\ StreamsInTime /\ InTime(src[s], poller, slot.epoch)
  BY DEF TypeOK, Timely, SourcesInTime, SlotStates, Epochs
<1>2. ASSUME UNCHANGED <<slot, newest>> PROVE Registered' /\ NoticeInTime'
  BY <1>2 DEF Timely, Registered, NoticeInTime
<1>3. ASSUME UNCHANGED <<slot, conn>> PROVE StreamsInTime'
  BY <1>1, <1>3 DEF StreamsInTime
<1>4. CASE Connect(s)
  <2> DEFINE d == Any(FreeConns)
             hello == [op |-> "welcome", notice |-> Notify(FALSE, Collecting, slot.epoch)]
             opened == [Free EXCEPT !.hub = TRUE, !.bridge = TRUE, !.down = <<hello>>]
             new == [src[s] EXCEPT !.at = "greeting", !.conn = d]
  <2>1. d \in Conns /\ src[s].at = "away"
    BY <1>4, AnyMember DEF Connect, FreeConns
  <2>2. /\ conn' = [EndWs(conn, "superseded") EXCEPT ![d] = opened]
        /\ slot' = [slot EXCEPT !.reg = d] /\ newest' = d /\ poller' = poller
        /\ src' = [src EXCEPT ![s] = new]
    BY <1>1, <1>4 DEF Connect, TypeOK
  <2>3. DownInTime(<<hello>>, slot.epoch)
    BY <1>1 DEF DownInTime, Notify
  <2>4. conn'[d].up = <<>> /\ conn'[d].down = <<hello>>
        /\ \A e \in Conns \ {d} : conn'[e] = EndWs(conn, "superseded")[e]
    BY <2>1, <2>2, HubTypes DEF Free
  <2> HIDE DEF d, hello, opened
  <2>5. slot'.epoch = slot.epoch /\ slot'.reg = d /\ slot'.notice = slot.notice
    BY <1>1, <2>2 DEF SlotStates
  <2>6. StreamsInTime'
    <3>1. NoEarlier
      BY <1>1, <2>5 DEF NoEarlier
    <3>2. UpInTime(conn'[d].up, slot'.epoch) /\ DownInTime(conn'[d].down, slot'.epoch)
      BY <2>3, <2>4, <2>5, EmptyInTime
    <3> QED
      BY <1>1, <2>1, <2>4, <3>1, <3>2, EndWsQueues, OneStream
  <2>7. InTime(new, poller, slot.epoch)
    BY <1>1, <2>1 DEF InTime, SourceStates
  <2> HIDE DEF new
  <2>8. ASSUME NEW t \in Sources PROVE InTime(src'[t], poller', slot'.epoch)
    BY <1>1, <2>2, <2>5, <2>7 DEF SourcesInTime, TypeOK
  <2> QED
    BY <1>1, <2>2, <2>5, <2>6, <2>8
    DEF Timely, Registered, NoticeInTime, PollersInTime, SourcesInTime
<1>5. CASE ConnectRefused(s)
  BY <1>5 DEF ConnectRefused, Timely, Registered, NoticeInTime, StreamsInTime, PollersInTime,
              SourcesInTime
<1>6. CASE Incoming(s)
  BY <1>6, IncomingTime
<1>7. CASE OnConfirmed(s) \/ OnSlotFree(s)
  <2> DEFINE x == [src[s] EXCEPT !.awaiting = "no"]
  <2>1. x \in SourceStates /\ InTime(x, poller, slot.epoch)
    BY <1>1 DEF SourceStates, InTime
  <2>2. Resume(s, x, None) \/ Resume(s, src[s], None)
    BY <1>7 DEF OnConfirmed, OnSlotFree
  <2>3. UNCHANGED <<slot, conn, newest>>
    BY <1>7 DEF OnConfirmed, OnSlotFree
  <2> HIDE DEF x
  <2>4. PollersInTime' /\ SourcesInTime'
    BY <1>1, <2>1, <2>2, <2>3, ResumeTime
  <2> QED
    BY <1>2, <1>3, <2>3, <2>4 DEF Timely
<1>8. CASE Send(s)
  <2> DEFINE v == [epoch |-> src[s].epoch, reading |-> src[s].out]
             x == [src[s] EXCEPT !.out = None]
  <2>1. src[s].at = "open" /\ src[s].out # None /\ c \in Conns /\ conn[c] \in ConnStates
    BY <1>1, <1>8 DEF Send, Shape, Whole, TypeOK
  <2>2. v \in Values /\ v.epoch <= v.reading.era /\ v.reading.era <= slot.epoch
    <3>1. src[s].epoch \in Epochs /\ src[s].out \in Readings
      BY <1>1, <2>1 DEF Shape, Whole, SourceStates
    <3>2. src[s].epoch <= src[s].out.era /\ src[s].out.era <= slot.epoch
      BY <1>1, <2>1 DEF InTime
    <3> QED
      BY <3>1, <3>2 DEF Values
  <2>3. UpInTime(conn[c].up, slot.epoch) /\ DownInTime(conn[c].down, slot.epoch)
    BY <2>1 DEF Timely, StreamsInTime
  <2>4. conn[c].up \in Seq(Values)
    BY <2>1 DEF ConnStates
  <2> HIDE DEF v
  <2>5. UpInTime(Append(conn[c].up, v), slot.epoch)
    BY <2>2, <2>3, <2>4, UpAppend
  <2>6. /\ conn' = [conn EXCEPT ![c].up = IF conn[c].hub THEN Append(@, v) ELSE @]
        /\ src' = [src EXCEPT ![s] = x] /\ UNCHANGED <<slot, newest, poller>>
    BY <1>8 DEF Send, TypeOK, v
  <2>7. /\ conn'[c].up \in {conn[c].up, Append(conn[c].up, v)} /\ conn'[c].down = conn[c].down
        /\ \A e \in Conns \ {c} : conn'[e] = conn[e]
    BY <2>1, <2>6 DEF TypeOK, ConnStates
  <2>8. InTime(x, poller, slot.epoch)
    BY <1>1 DEF SourceStates, InTime
  <2> HIDE DEF c, x
  <2>9. StreamsInTime'
    BY <1>1, <2>1, <2>3, <2>5, <2>6, <2>7, OneStream DEF NoEarlier
  <2>10. PollersInTime' /\ SourcesInTime'
    BY <1>1, <2>6, <2>8, OneSource
  <2> QED
    BY <1>2, <2>6, <2>9, <2>10 DEF Timely
<1>9. CASE OnStop(s)
  <2>1. src' = [src EXCEPT ![s] = NoSource] /\ poller' = Retired(src[s].poller)
        /\ UNCHANGED <<slot, newest>>
    BY <1>9 DEF OnStop
  <2>2. InTime(NoSource, poller', slot.epoch)
    BY <1>1 DEF InTime, NoSource
  <2>3. PollersInTime' /\ SourcesInTime'
    BY <1>1, <2>1, <2>2, RetiredEras, OneSource
  <2>4. StreamsInTime'
    <3>1. CASE c # None /\ conn[c].bridge
      <4>1. c \in Conns /\ conn' = Detached(c)
        BY <1>1, <1>9, <3>1 DEF OnStop, SourceStates
      <4> QED
        BY <2>1, <4>1, DetachedTime
    <3>2. CASE ~(c # None /\ conn[c].bridge)
      BY <1>3, <1>9, <2>1, <3>2 DEF OnStop
    <3> QED
      BY <3>1, <3>2
  <2> QED
    BY <1>2, <2>1, <2>3, <2>4 DEF Timely
<1> QED
  BY <1>4, <1>5, <1>6, <1>7, <1>8, <1>9 DEF Source

(* The steps of the supervisor.                                            *)
LEMMA SupervisorStepTime ==
    ASSUME TypeOK, Timely, Supervisor PROVE Timely'
<1> USE DEF hubVars, bridgeVars
<1>1. UNCHANGED <<slot, conn, newest, poller>>
  BY DEF Supervisor, TimerFires, FetchBegins, FetchFails, FetchApplied
<1>2. Registered' /\ NoticeInTime' /\ StreamsInTime' /\ PollersInTime'
  BY <1>1 DEF Timely, Registered, NoticeInTime, StreamsInTime, PollersInTime
<1>3. slot.epoch \in Nat
  BY DEF TypeOK, SlotStates, Epochs
<1>4. ASSUME NEW s \in Sources PROVE InTime(src'[s], poller, slot.epoch)
  <2>1. src[s] \in SourceStates /\ InTime(src[s], poller, slot.epoch)
    BY DEF TypeOK, Timely, SourcesInTime
  <2>2. CASE TimerFires \/ FetchFails
    BY <2>1, <2>2 DEF TimerFires, FetchFails
  <2>3. CASE FetchBegins
    <3> DEFINE x == [src[s] EXCEPT !.awaiting = IF @ = "asked" THEN "covered" ELSE @]
    <3>1. src'[s] = x
      BY <2>3 DEF FetchBegins
    <3>2. InTime(x, poller, slot.epoch)
      BY <2>1 DEF InTime, SourceStates
    <3> QED
      BY <3>1, <3>2
  <2>4. CASE FetchApplied
    <3> DEFINE told == [t \in Sources |->
                          [src[t] EXCEPT !.awaiting = IF src[t].awaiting = "covered"
                                                      THEN "confirmed" ELSE src[t].awaiting,
                                         !.stop = src[t].stop \/ (t = running /\ ~Unchanged(fetch))]]
               new(sql, k) == [NoSource EXCEPT !.at = "away", !.sql = sql, !.permit = k]
    <3>1. InTime(told[s], poller, slot.epoch)
      BY <2>1 DEF InTime, SourceStates
    <3>2. \A sql, k : InTime(new(sql, k), poller, slot.epoch)
      BY <1>3 DEF InTime, NoSource
    <3>3. src'[s] = told[s] \/ \E sql, k : src'[s] = new(sql, k)
      <4>1. CASE Unchanged(fetch) \/ ~fetch.on
        BY <2>4, <4>1 DEF FetchApplied
      <4>2. CASE ~(Unchanged(fetch) \/ ~fetch.on)
        <5> DEFINE k == IF Retained(fetch) # None THEN Retained(fetch) ELSE Any(NewPermits)
        <5>1. src' = [told EXCEPT ![Any(FreeSources)] = new(fetch.sql, k)]
          BY <2>4, <4>2 DEF FetchApplied
        <5> HIDE DEF new, k
        <5>2. src'[s] = told[s] \/ src'[s] = new(fetch.sql, k)
          BY <5>1
        <5> QED
          BY <5>2
      <4> QED
        BY <4>1, <4>2
    <3> HIDE DEF told, new
    <3> QED
      BY <3>1, <3>2, <3>3
  <2> QED
    BY <2>2, <2>3, <2>4 DEF Supervisor
<1> QED
  BY <1>1, <1>2, <1>4 DEF Timely, SourcesInTime

(* Being in time, with the types and the shape, is inductive.              *)
Sound == TypeOK /\ Shape /\ Timely

LEMMA InitSound == Init => Sound
<1> SUFFICES ASSUME Init PROVE Timely
  BY InitTypeOK, InitShape DEF Sound
<1> USE DEF Init
<1>1. Registered /\ NoticeInTime
  BY DEF Registered, NoticeInTime, Notify
<1>2. StreamsInTime
  BY EmptyInTime DEF StreamsInTime, Free
<1>3. PollersInTime
  BY DEF PollersInTime, Idle
<1>4. SourcesInTime
  BY DEF SourcesInTime, InTime, NoSource
<1> QED
  BY <1>1, <1>2, <1>3, <1>4 DEF Timely

LEMMA StepSound == Sound /\ [Next]_vars => Sound'
<1> SUFFICES ASSUME Sound, [Next]_vars PROVE Timely'
  BY StepTypes DEF Sound
<1>1. TypeOK /\ Shape /\ Timely
  BY DEF Sound
<1>2. CASE Collection \/ Registry
  BY <1>1, <1>2, HubStepTime
<1>3. ASSUME NEW c \in Conns, Stream(c) \/ Break(c) PROVE Timely'
  BY <1>1, <1>3, StreamStepTime
<1>4. ASSUME NEW p \in Pollers, Poller(p) PROVE Timely'
  BY <1>1, <1>4, PollerStepTime
<1>5. ASSUME NEW s \in Sources, Source(s) PROVE Timely'
  BY <1>1, <1>5, SourceStepTime
<1>6. CASE Supervisor
  BY <1>1, <1>6, SupervisorStepTime
<1>7. CASE UNCHANGED vars
  BY <1>1, <1>7 DEF vars, Timely, Registered, NoticeInTime, StreamsInTime, PollersInTime,
                    SourcesInTime
<1> QED
  BY <1>2, <1>3, <1>4, <1>5, <1>6, <1>7 DEF Next

-----------------------------------------------------------------------------
(***************************************************************************)
(* The refinement.                                                         *)
(***************************************************************************)

(* A commit, a stop or a start of the collection leaves the abstract slot  *)
(* alone or turns it.                                                      *)
LEMMA HubRefines ==
    ASSUME TypeOK, Collection \/ Registry
    PROVE  Slot!Turn \/ UNCHANGED <<slot.epoch, newest, slot.held>>
<1>1. slot \in SlotStates
  BY DEF TypeOK
<1>2. UNCHANGED newest
  BY DEF Collection, CollectionStopped, CollectionStarting, CollectionStarted, CollectionFaulted,
         Registry, Save, Commit, bridgeVars
<1>3. ASSUME slot'.epoch = slot.epoch + 1, slot'.held = None PROVE Slot!Turn
  BY <1>2, <1>3 DEF Slot!Turn
<1>4. CASE CollectionStopped
  <2>1. slot' = [slot EXCEPT !.held = None, !.epoch = slot.epoch + 1, !.collecting = FALSE,
                             !.notice = Notify(FALSE, FALSE, slot.epoch + 1)]
    BY <1>4 DEF CollectionStopped
  <2> QED
    BY <1>1, <1>3, <2>1 DEF SlotStates
<1>5. CASE CollectionStarting
  <2>1. slot' = [slot EXCEPT !.held = None, !.epoch = slot.epoch + 1]
    BY <1>5 DEF CollectionStarting
  <2> QED
    BY <1>1, <1>3, <2>1 DEF SlotStates
<1>6. CASE CollectionStarted
  <2>1. slot' = [slot EXCEPT !.collecting = TRUE, !.notice = Notify(FALSE, TRUE, slot.epoch)]
    BY <1>6 DEF CollectionStarted
  <2>2. slot'.epoch = slot.epoch /\ slot'.held = slot.held
    BY <1>1, <2>1 DEF SlotStates
  <2> QED
    BY <1>2, <2>2
<1>7. CASE CollectionFaulted \/ Save
  BY <1>2, <1>7 DEF CollectionFaulted, Save
<1>8. CASE Commit
  <2>1. CASE UNCHANGED <<slot, conn>>
    BY <1>2, <2>1
  <2>2. CASE slot'.epoch = slot.epoch + 1 /\ slot'.held = None
    BY <1>3, <2>2
  <2> QED
    BY <1>8, <2>1, <2>2, Committing
<1> QED
  BY <1>4, <1>5, <1>6, <1>7, <1>8 DEF Collection, Registry

(* Values that are taken in are of the slot's epoch, by what they name and *)
(* by when they were read, and came on the newest stream.                  *)
LEMMA StreamRefines ==
    ASSUME Sound, NEW c \in Conns, Stream(c) \/ Break(c)
    PROVE  Slot!Take \/ UNCHANGED <<slot.epoch, newest, slot.held>>
<1>1. slot \in SlotStates /\ conn[c] \in ConnStates /\ TypeOK /\ Timely
  BY DEF Sound, TypeOK
<1>2. UNCHANGED newest /\ slot'.epoch = slot.epoch
  BY <1>1, StreamsKeepEpoch
  DEF Stream, SendState, HubEnds, HubLoses, Leave, HandleValues, Break
<1>3. ASSUME NEW why, Leave(c, why) PROVE slot'.held = slot.held
  BY <1>1, <1>3 DEF Leave, SlotStates
<1>4. CASE SendState(c) \/ Break(c)
  BY <1>2, <1>4 DEF SendState, Break, hubVars
<1>5. CASE HubEnds(c) \/ HubLoses(c)
  BY <1>2, <1>3, <1>5 DEF HubEnds, HubLoses
<1>6. CASE HandleValues(c)
  <2> DEFINE m == Head(conn[c].up)
             r == [sql |-> m.reading.sql, era |-> m.reading.era, via |-> c]
  <2>1. conn[c].up # <<>> /\ slot' = Applied(c, m) /\ slot.reg = c
    BY <1>6 DEF HandleValues, IsCurrent
  <2>2. conn[c].up \in Seq(Values) /\ UpInTime(conn[c].up, slot.epoch)
    BY <1>1 DEF ConnStates, Timely, StreamsInTime
  <2>3. m \in Values /\ m.epoch <= m.reading.era /\ m.reading.era <= slot.epoch
    BY <2>1, <2>2, UpTail
  <2>4. newest = c /\ c # None
    BY <1>1, <2>1, BridgeAssumption DEF Timely, Registered
  <2>5. CASE m.epoch = slot.epoch
    <3>1. m.reading.era = slot.epoch /\ m.reading.sql \in Sqls
      BY <1>1, <2>3, <2>5 DEF Values, Readings, Epochs, SlotStates
    <3>2. slot' = [slot EXCEPT !.held = r]
      BY <2>1, <2>5 DEF Applied
    <3>3. slot'.held = [sql |-> m.reading.sql, era |-> slot.epoch, via |-> newest]
      BY <1>1, <2>4, <3>1, <3>2 DEF SlotStates
    <3> HIDE DEF m
    <3> QED
      BY <1>2, <2>4, <3>1, <3>3 DEF Slot!Take
  <2>6. CASE m.epoch # slot.epoch
    BY <1>2, <2>1, <2>6 DEF Applied
  <2> QED
    BY <2>5, <2>6
<1> QED
  BY <1>4, <1>5, <1>6 DEF Stream

(* A new WebSocket opens the abstract slot's next stream; nothing else a   *)
(* source does touches it.                                                 *)
LEMMA SourceRefines ==
    ASSUME TypeOK, NEW s \in Sources, Source(s)
    PROVE  Slot!Open \/ UNCHANGED <<slot.epoch, newest, slot.held>>
<1>1. slot \in SlotStates
  BY DEF TypeOK
<1>2. CASE Connect(s)
  <2>1. Any(FreeConns) \in Conns
    BY <1>2, AnyMember DEF Connect, FreeConns
  <2>2. slot' = [slot EXCEPT !.reg = Any(FreeConns)] /\ newest' = Any(FreeConns)
    BY <1>2 DEF Connect
  <2>3. slot'.epoch = slot.epoch /\ slot'.held = slot.held
    BY <1>1, <2>2 DEF SlotStates
  <2> QED
    BY <2>1, <2>2, <2>3 DEF Slot!Open
<1>3. ASSUME ~Connect(s) PROVE UNCHANGED <<slot, newest>>
  <2>1. CASE ConnectRefused(s)
    BY <2>1 DEF ConnectRefused, hubVars
  <2>2. CASE Incoming(s)
    BY <2>2 DEF Incoming, OnWelcome, OnState, OnClose, OnLost, hubVars
  <2>3. CASE OnConfirmed(s) \/ OnSlotFree(s) \/ Send(s) \/ OnStop(s)
    BY <2>3 DEF OnConfirmed, OnSlotFree, Send, OnStop, hubVars
  <2> QED
    BY <1>3, <2>1, <2>2, <2>3 DEF Source
<1> QED
  BY <1>2, <1>3

LEMMA StepRefines ==
    Sound /\ [Next]_vars => [Slot!Next]_<<slot.epoch, newest, slot.held>>
<1> SUFFICES ASSUME Sound, [Next]_vars PROVE [Slot!Next]_<<slot.epoch, newest, slot.held>>
  OBVIOUS
<1>1. TypeOK
  BY DEF Sound
<1>2. CASE Collection \/ Registry
  BY <1>1, <1>2, HubRefines DEF Slot!Next
<1>3. ASSUME NEW c \in Conns, Stream(c) \/ Break(c)
      PROVE  [Slot!Next]_<<slot.epoch, newest, slot.held>>
  BY <1>3, StreamRefines DEF Slot!Next
<1>4. ASSUME NEW p \in Pollers, Poller(p) PROVE UNCHANGED <<slot.epoch, newest, slot.held>>
  BY <1>4 DEF Poller, QueryBegins, QueryEnds, PollerStops, hubVars
<1>5. ASSUME NEW s \in Sources, Source(s)
      PROVE  [Slot!Next]_<<slot.epoch, newest, slot.held>>
  BY <1>1, <1>5, SourceRefines DEF Slot!Next
<1>6. CASE Supervisor
  BY <1>6 DEF Supervisor, TimerFires, FetchBegins, FetchFails, FetchApplied, hubVars
<1>7. CASE UNCHANGED vars
  BY <1>7 DEF vars
<1> QED
  BY <1>2, <1>3, <1>4, <1>5, <1>6, <1>7 DEF Next

(* The slot keeps its epoch: whatever the order of the collection's turns, *)
(* commits, broken links and replaced sources, what it holds was read in   *)
(* its present epoch and came on the newest stream.                        *)
THEOREM EpochKept == Spec => KeepsItsEpoch
<1>1. Init => Slot!Init
  BY DEF Init, Slot!Init
<1>2. Spec => []Sound
  BY InitSound, StepSound, PTL DEF Spec
<1>3. Sound /\ [Next]_vars => [Slot!Next]_<<slot.epoch, newest, slot.held>>
  BY StepRefines
<1> QED
  BY <1>1, <1>2, <1>3, PTL DEF Spec, KeepsItsEpoch, Slot!Spec


-----------------------------------------------------------------------------
(***************************************************************************)
(* Whose SQL: what the Hub holds was read with the SQL of the settings it  *)
(* has or will have, as long as every change was announced and heard of.   *)
(***************************************************************************)

(* Settings whose SQL the slot has, or will have once it commits them.     *)
Among(ss, q) == \E i \in DOMAIN ss : ss[i].sql = q

(* Sources have streams and pollers of their own; one that waits for the   *)
(* configuration has neither poller nor reading, and what a source reads   *)
(* it reads with its SQL.                                                  *)
Reads(x, ps) ==
    /\ x.conn # None => x.at \in {"greeting", "open"}
    /\ x.awaiting # "no" => x.poller = None /\ x.out = None
    /\ x.poller # None => ps[x.poller].alive /\ ~ps[x.poller].stop /\ ps[x.poller].sql = x.sql
    /\ x.out # None => x.out.sql = x.sql

Own ==
    /\ \A s \in Sources : Reads(src[s], poller)
    /\ \A s, t \in Sources : src[s].conn # None /\ src[s].conn = src[t].conn => s = t
    /\ \A s, t \in Sources : src[s].poller # None /\ src[s].poller = src[t].poller => s = t

RegOpen == slot.reg # None => conn[slot.reg].hub

(* A message on the way that says that the settings changed, and the       *)
(* notice that does, name an epoch later than all the source knows or is   *)
(* to hear before it.                                                      *)
Tells(m) == m.op # "close" /\ m.notice.changed
Before(q, k, e) == \A j \in 1..Len(q) : j < k /\ q[j].op # "close" => q[j].notice.epoch < e
InTurn(q, e) ==
    \A i \in 1..Len(q) : Tells(q[i]) => e < q[i].notice.epoch /\ Before(q, i, q[i].notice.epoch)
LastOf(q, e, n) == e < n.epoch /\ Before(q, Len(q) + 1, n.epoch)
Herald(k, n, e) == InTurn(k.down, e) /\ (k.unread /\ n.changed => LastOf(k.down, e, n))

Heralded ==
    \A s \in Sources : src[s].conn # None => Herald(conn[src[s].conn], slot.notice, src[s].epoch)

(* The source of the registered stream has SQL of ours, or will hear that  *)
(* the settings changed, or waits for a fetch that will see it.            *)
Present(x, reg, cs) == x.conn # None /\ x.conn = reg /\ cs[reg].bridge
Ahead(k, n) == (k.unread /\ n.changed) \/ \E i \in 1..Len(k.down) : Tells(k.down[i])
Informed(x, k, n, f, ss) ==
    \/ Among(ss, x.sql)
    \/ Ahead(k, n)
    \/ x.awaiting = "asked"
    \/ x.awaiting = "covered" /\ (f # None => Among(ss, f.sql))
NewsTo(x, sl, cs, f, ss) ==
    Present(x, sl.reg, cs) /\ x.at = "open" /\ ~x.stop => Informed(x, cs[x.conn], sl.notice, f, ss)
News == \A s \in Sources : NewsTo(src[s], slot, conn, fetch, saves)

(* What it reads in the present epoch, and what comes in under it, has SQL *)
(* of ours.                                                                *)
ReadsOurs(x, sl, cs, ss) ==
    Present(x, sl.reg, cs) /\ x.epoch = sl.epoch /\ (x.poller # None \/ x.out # None)
      => Among(ss, x.sql)
ReadOurs == \A s \in Sources : ReadsOurs(src[s], slot, conn, saves)
AllAmong(q, e, ss) == \A i \in 1..Len(q) : q[i].epoch = e => Among(ss, q[i].reading.sql)
SentOurs == slot.reg # None => AllAmong(conn[slot.reg].up, slot.epoch, saves)
HeldOurs == slot.held # None => Among(saves, slot.held.sql)

Announced == ~folded /\ ~skipped
AllOurs == News /\ ReadOurs /\ SentOurs /\ HeldOurs
SqlInv == Own /\ RegOpen /\ Heralded /\ (Announced => AllOurs)

(* One source changes, and pollers of no other one.                        *)
LEMMA OwnOne ==
    ASSUME TypeOK, Own, NEW s \in Sources, NEW x, src' = [src EXCEPT ![s] = x], Reads(x, poller'),
           x.conn # None => \A t \in Sources \ {s} : src[t].conn # x.conn,
           x.poller # None => \A t \in Sources \ {s} : src[t].poller # x.poller,
           \A t \in Sources \ {s} : src[t].poller # None =>
              poller'[src[t].poller] = poller[src[t].poller]
    PROVE  Own'
<1>1. src'[s] = x /\ \A t \in Sources \ {s} : src'[t] = src[t]
  BY DEF TypeOK
<1>2. ASSUME NEW t \in Sources PROVE Reads(src'[t], poller')
  <2>1. CASE t = s
    BY <1>1, <2>1
  <2>2. CASE t # s
    <3>1. Reads(src[t], poller)
      BY DEF Own
    <3> QED
      BY <1>1, <2>2, <3>1 DEF Reads
  <2> QED
    BY <2>1, <2>2
<1>3. ASSUME NEW t \in Sources, NEW u \in Sources, src'[t].conn # None, src'[t].conn = src'[u].conn PROVE t = u
  <2>1. CASE t = s \/ u = s
    BY <1>1, <1>3, <2>1
  <2>2. CASE t # s /\ u # s
    BY <1>1, <1>3, <2>2 DEF Own
  <2> QED
    BY <2>1, <2>2
<1>4. ASSUME NEW t \in Sources, NEW u \in Sources, src'[t].poller # None, src'[t].poller = src'[u].poller
      PROVE  t = u
  <2>1. CASE t = s \/ u = s
    BY <1>1, <1>4, <2>1
  <2>2. CASE t # s /\ u # s
    BY <1>1, <1>4, <2>2 DEF Own
  <2> QED
    BY <2>1, <2>2
<1> QED
  BY <1>2, <1>3, <1>4 DEF Own

LEMMA RetiredElse ==
    ASSUME TypeOK, NEW r PROVE \A q \in Pollers : q # r => Retired(r)[q] = poller[q]
BY DEF TypeOK, Retired, PollerStates

(* A source that retires its poller or keeps it retires nobody else's.     *)
LEMMA RetiredOthers ==
    ASSUME TypeOK, Own, NEW s \in Sources, NEW r, r \in {None, src[s].poller}
    PROVE  \A t \in Sources \ {s} : src[t].poller # None =>
              src[t].poller \in Pollers /\ src[t].poller # r
              /\ Retired(r)[src[t].poller] = poller[src[t].poller]
<1> SUFFICES ASSUME NEW t \in Sources \ {s}, src[t].poller # None
             PROVE  src[t].poller \in Pollers /\ src[t].poller # r
                    /\ Retired(r)[src[t].poller] = poller[src[t].poller]
  OBVIOUS
<1>1. src[t].poller \in Pollers /\ src[t].poller # r
  BY DEF TypeOK, SourceStates, Own
<1> QED
  BY <1>1, RetiredElse

LEMMA OwnResume ==
    ASSUME TypeOK, Own, NEW s \in Sources, NEW x \in SourceStates, Reads(x, poller),
           x.conn = src[s].conn, x.poller \in {None, src[s].poller},
           NEW r, r \in {None, src[s].poller}, r # None => x.poller = None, Resume(s, x, r)
    PROVE  /\ Own'
           /\ \E p \in Pollers \cup {None} :
                /\ src' = [src EXCEPT ![s] = [x EXCEPT !.poller = p]]
                /\ p # x.poller => Wants(x) /\ p # None
<1>0. \A t \in Sources \ {s} : x.conn # None => src[t].conn # x.conn
  BY DEF Own
<1>1. CASE CanStart(x)
  <2> DEFINE p == Any(FreePollers)
             y == [x EXCEPT !.poller = p]
  <2>1. p \in Pollers /\ ~poller[p].alive
    BY <1>1, AnyMember DEF CanStart, FreePollers
  <2>2. /\ poller' = [Retired(r) EXCEPT
                        ![p] = [alive |-> TRUE, permit |-> x.permit, sql |-> x.sql,
                                stop |-> FALSE, era |-> None]]
        /\ src' = [src EXCEPT ![s] = y]
    BY <1>1 DEF Resume
  <2>3. y.conn = x.conn /\ y.at = x.at /\ y.awaiting = "no" /\ y.poller = p /\ y.out = x.out /\ y.sql = x.sql
    BY <1>1 DEF SourceStates, CanStart, Wants
  <2> HIDE DEF p, y
  <2>4. poller'[p].alive /\ ~poller'[p].stop /\ poller'[p].sql = x.sql
        /\ \A q \in Pollers \ {p} : poller'[q] = Retired(r)[q]
    BY <2>1, <2>2, RetiredType
  <2>5. Reads(y, poller')
    BY <2>3, <2>4 DEF Reads
  <2>6. \A t \in Sources \ {s} : src[t].poller # None => poller[src[t].poller].alive
    BY DEF Own, Reads
  <2>7. \A t \in Sources \ {s} : src[t].poller # p
    BY <2>1, <2>6, BridgeAssumption
  <2>8. \A t \in Sources \ {s} : src[t].poller # None => poller'[src[t].poller] = poller[src[t].poller]
    BY <2>4, <2>7, RetiredOthers
  <2>9. Own'
    BY <1>0, <2>2, <2>3, <2>5, <2>7, <2>8, OwnOne
  <2> QED
    BY <1>1, <2>1, <2>2, <2>9, BridgeAssumption DEF y, CanStart
<1>2. CASE ~CanStart(x)
  <2>1. poller' = Retired(r) /\ src' = [src EXCEPT ![s] = x]
    BY <1>2 DEF Resume
  <2>2. Reads(x, poller')
    <3>1. x.poller # None => x.poller \in Pollers /\ x.poller # r
      BY DEF SourceStates
    <3>2. x.poller # None => poller'[x.poller] = poller[x.poller]
      BY <2>1, <3>1, RetiredElse
    <3> QED
      BY <3>2 DEF Reads
  <2>3. x.poller # None => \A t \in Sources \ {s} : src[t].poller # x.poller
    BY DEF Own
  <2>4. \A t \in Sources \ {s} : src[t].poller # None => poller'[src[t].poller] = poller[src[t].poller]
    BY <2>1, RetiredOthers
  <2>5. Own'
    BY <1>0, <2>1, <2>2, <2>3, <2>4, OwnOne
  <2>6. x.poller \in Pollers \cup {None} /\ x = [x EXCEPT !.poller = x.poller]
    BY DEF SourceStates
  <2> QED
    BY <2>1, <2>5, <2>6
<1> QED
  BY <1>1, <1>2

LEMMA PollerOwn ==
    ASSUME TypeOK, Own, NEW p \in Pollers, Poller(p) PROVE Own'
<1>1. \A s \in Sources : src[s] \in SourceStates /\ Reads(src[s], poller)
  BY DEF TypeOK, Own
<1>2. poller \in [Pollers -> PollerStates]
  BY DEF TypeOK
<1>3. CASE QueryBegins(p)
  <2>1. \A q \in Pollers : poller'[q].alive = poller[q].alive /\ poller'[q].stop = poller[q].stop
                           /\ poller'[q].sql = poller[q].sql
    BY <1>2, <1>3 DEF QueryBegins, PollerStates
  <2> QED
    BY <1>1, <1>3, <2>1 DEF QueryBegins, Own, Reads, SourceStates
<1>4. CASE QueryEnds(p)
  <2>1. \A q \in Pollers : poller'[q].alive = poller[q].alive /\ poller'[q].stop = poller[q].stop
                           /\ poller'[q].sql = poller[q].sql
    BY <1>2, <1>4 DEF QueryEnds, PollerStates
  <2>2. ASSUME NEW s \in Sources
        PROVE  /\ src'[s].conn = src[s].conn /\ src'[s].poller = src[s].poller /\ src'[s].at = src[s].at
               /\ src'[s].awaiting = src[s].awaiting /\ src'[s].sql = src[s].sql
               /\ src'[s].out = src[s].out \/ (src[s].poller = p /\ src'[s].out.sql = poller[p].sql)
    <3>1. CASE src[s].poller = p
      <4>1. src'[s] = [src[s] EXCEPT !.out = [sql |-> poller[p].sql, era |-> poller[p].era]]
        BY <1>4, <3>1 DEF QueryEnds
      <4> QED
        BY <1>1, <3>1, <4>1 DEF SourceStates
    <3>2. CASE src[s].poller # p
      BY <1>4, <3>2 DEF QueryEnds
    <3> QED
      BY <3>1, <3>2
  <2>3. p # None
    BY BridgeAssumption
  <2>4. ASSUME NEW s \in Sources PROVE Reads(src'[s], poller')
    <3>1. src[s].poller # None => src[s].poller \in Pollers
      BY <1>1 DEF SourceStates
    <3> QED
      BY <1>1, <2>1, <2>2, <2>3, <3>1 DEF Reads
  <2> QED
    BY <2>2, <2>4 DEF Own
<1>5. CASE PollerStops(p)
  <2>1. \A s \in Sources : src[s].poller # p
    BY <1>1, <1>5, BridgeAssumption DEF PollerStops, Reads
  <2>2. \A s \in Sources : src[s].poller # None => poller'[src[s].poller] = poller[src[s].poller]
    BY <1>1, <1>5, <2>1 DEF PollerStops, SourceStates, TypeOK
  <2> QED
    BY <1>5, <2>2 DEF PollerStops, Own, Reads
<1> QED
  BY <1>3, <1>4, <1>5 DEF Poller

(* What a source makes of a `state`.                                       *)
ToldOf(s, n) ==
    [src[s] EXCEPT !.epoch = n.epoch, !.collecting = n.collecting,
                   !.awaiting = IF n.changed THEN "asked" ELSE src[s].awaiting]
AgainOf(s, n) == n.epoch # src[s].epoch \/ n.collecting # src[s].collecting \/ n.changed
AfreshOf(s, n) == [ToldOf(s, n) EXCEPT !.poller = None, !.out = None]
Heads(s) == Head(conn[src[s].conn].down)

LEMMA StateShape ==
    ASSUME TypeOK, Shape, Timely, Own, NEW s \in Sources, OnState(s)
    PROVE  /\ src[s].at = "open" /\ ~src[s].stop /\ src[s].conn \in Conns
           /\ Heads(s).notice \in Notice /\ Hears(s, "state") /\ conn' = Heard(s)
           /\ UNCHANGED <<saves, slot, fetch, folded, skipped>>
           /\ \E x \in SourceStates, r \in {None, src[s].poller} :
                /\ Resume(s, x, r) /\ Reads(x, poller) /\ (r # None => x.poller = None)
                /\ x.conn = src[s].conn /\ x.poller \in {None, src[s].poller} /\ x.sql = src[s].sql
                /\ x.at = "open" /\ ~x.stop /\ x.epoch = Heads(s).notice.epoch
                /\ x.awaiting = IF Heads(s).notice.changed THEN "asked" ELSE src[s].awaiting
                /\ \/ x.poller = None /\ x.out = None
                   \/ /\ x.poller = src[s].poller /\ x.out = src[s].out /\ x.epoch = src[s].epoch
                      /\ ~Heads(s).notice.changed
<1> DEFINE n == Heads(s).notice
           told == ToldOf(s, n)
           afresh == AfreshOf(s, n)
<1>1. /\ Hears(s, "state") /\ src[s].at = "open" /\ conn' = Heard(s)
      /\ IF AgainOf(s, n) THEN Resume(s, afresh, src[s].poller) ELSE Resume(s, told, None)
      /\ UNCHANGED <<saves, slot, fetch, folded, skipped>>
  <2>1. IF AgainOf(s, n) THEN Resume(s, afresh, src[s].poller) ELSE Resume(s, told, None)
    BY Zenon DEF OnState, ToldOf, AgainOf, AfreshOf, Heads
  <2>2. Hears(s, "state") /\ src[s].at = "open" /\ conn' = Heard(s)
    BY Zenon DEF OnState
  <2>3. UNCHANGED <<saves, slot, fetch, folded, skipped>>
    BY DEF OnState, hubVars
  <2> QED
    BY <2>1, <2>2, <2>3
<1>2. src[s].conn \in Conns /\ src[s] \in SourceStates /\ Reads(src[s], poller) /\ ~src[s].stop
  BY <1>1 DEF Shape, Whole, TypeOK, Own, Hears
<1>3. n \in Notice
  BY <1>1, <1>2, HearsType DEF Heads
<1> HIDE DEF n
<1>4. /\ told \in SourceStates /\ told.conn = src[s].conn /\ told.poller = src[s].poller /\ told.sql = src[s].sql
      /\ told.at = "open" /\ ~told.stop /\ told.epoch = n.epoch /\ told.out = src[s].out
      /\ told.awaiting = IF n.changed THEN "asked" ELSE src[s].awaiting
  BY <1>1, <1>2, <1>3 DEF ToldOf, SourceStates, Notice
<1> HIDE DEF told
<1>5. /\ afresh \in SourceStates /\ afresh.conn = src[s].conn /\ afresh.poller = None /\ afresh.sql = src[s].sql
      /\ afresh.at = "open" /\ ~afresh.stop /\ afresh.epoch = n.epoch /\ afresh.out = None
      /\ afresh.awaiting = told.awaiting
  BY <1>4 DEF AfreshOf, SourceStates, told
<1> HIDE DEF afresh
<1>6. CASE AgainOf(s, n)
  <2>1. Reads(afresh, poller)
    BY <1>5 DEF Reads
  <2> QED
    BY <1>1, <1>2, <1>3, <1>4, <1>5, <1>6, <2>1 DEF n
<1>7. CASE ~AgainOf(s, n)
  <2>1. told.awaiting = src[s].awaiting /\ n.epoch = src[s].epoch /\ ~n.changed
    BY <1>4, <1>7 DEF AgainOf
  <2>2. Reads(told, poller)
    BY <1>1, <1>2, <1>4, <2>1 DEF Reads
  <2> QED
    BY <1>1, <1>2, <1>3, <1>4, <1>7, <2>1, <2>2 DEF n
<1> QED
  BY <1>6, <1>7

(* The steps of a source that leave it apart from the others.              *)
LEMMA SourceOwn ==
    ASSUME TypeOK, Shape, Timely, Own, NEW s \in Sources, Source(s) PROVE Own'
<1>1. src[s] \in SourceStates /\ Reads(src[s], poller) /\ InTime(src[s], poller, slot.epoch)
  BY DEF TypeOK, Own, Timely, SourcesInTime
<1>2. \A t \in Sources \ {s} : src[t].poller # None =>
         Retired(src[s].poller)[src[t].poller] = poller[src[t].poller]
  BY RetiredOthers
<1>3. \A t \in Sources \ {s} : /\ src[s].conn # None => src[t].conn # src[s].conn
                               /\ src[s].poller # None => src[t].poller # src[s].poller
  BY DEF Own
<1>4. CASE Connect(s)
  <2> DEFINE d == Any(FreeConns)
             new == [src[s] EXCEPT !.at = "greeting", !.conn = d]
  <2>1. d \in FreeConns /\ src[s].at = "away" /\ poller' = poller
    BY <1>4, AnyMember DEF Connect
  <2>2. src' = [src EXCEPT ![s] = new]
    BY <1>4 DEF Connect, TypeOK
  <2>3. \A t \in Sources : src[t].conn # d
    BY <2>1 DEF FreeConns
  <2> HIDE DEF d
  <2>4. new.at = "greeting" /\ new.conn = d /\ new.poller = None /\ new.out = None
    BY <1>1, <2>1 DEF SourceStates, InTime
  <2> HIDE DEF new
  <2>5. Reads(new, poller')
    BY <2>4 DEF Reads
  <2> QED
    BY <2>1, <2>2, <2>3, <2>4, <2>5, OwnOne
<1>5. CASE ConnectRefused(s)
  BY <1>5 DEF ConnectRefused, Own, Reads
<1>6. CASE OnWelcome(s)
  <2> DEFINE n == Head(conn[src[s].conn].down).notice
             new == Greeted(src[s], n)
  <2>1. src' = [src EXCEPT ![s] = new] /\ src[s].at = "greeting" /\ poller' = poller
    BY <1>6 DEF OnWelcome
  <2>2. new.at = "open" /\ new.conn = src[s].conn /\ new.poller = None /\ new.out = None
    BY <1>1, <2>1 DEF SourceStates, InTime, Greeted
  <2> HIDE DEF new
  <2>3. Reads(new, poller')
    BY <2>2 DEF Reads
  <2> QED
    BY <1>3, <2>1, <2>2, <2>3, OwnOne
<1>7. CASE OnState(s)
  <2>1. PICK x \in SourceStates, r \in {None, src[s].poller} :
           /\ Resume(s, x, r) /\ Reads(x, poller) /\ (r # None => x.poller = None)
           /\ x.conn = src[s].conn /\ x.poller \in {None, src[s].poller}
    BY <1>7, StateShape
  <2> QED
    BY <2>1, OwnResume
<1>8. CASE OnClose(s) \/ OnLost(s)
  <2>1. src' = [src EXCEPT ![s] = Away(src[s])] /\ poller' = Retired(src[s].poller)
    BY <1>8 DEF OnClose, OnLost
  <2>2. LET x == Away(src[s]) IN x.conn = None /\ x.poller = None /\ x.out = None /\ x.awaiting = "no"
    BY <1>1 DEF Away, SourceStates
  <2>3. Reads(Away(src[s]), poller')
    BY <2>2 DEF Reads
  <2> QED
    BY <1>2, <2>1, <2>2, <2>3, OwnOne
<1>9. CASE OnConfirmed(s) \/ OnSlotFree(s)
  <2> DEFINE x == [src[s] EXCEPT !.awaiting = "no"]
  <2>1. x \in SourceStates /\ x.conn = src[s].conn /\ x.poller = src[s].poller /\ x.out = src[s].out
        /\ x.at = src[s].at /\ x.sql = src[s].sql /\ x.awaiting = "no"
    BY <1>1 DEF SourceStates
  <2>2. Resume(s, x, None) \/ Resume(s, src[s], None)
    BY <1>9 DEF OnConfirmed, OnSlotFree
  <2> HIDE DEF x
  <2>3. Reads(x, poller)
    BY <1>1, <2>1 DEF Reads
  <2> QED
    BY <1>1, <2>1, <2>2, <2>3, OwnResume
<1>10. CASE Send(s)
  <2> DEFINE x == [src[s] EXCEPT !.out = None]
  <2>1. src' = [src EXCEPT ![s] = x] /\ poller' = poller
    BY <1>10 DEF Send, TypeOK
  <2>2. x.conn = src[s].conn /\ x.poller = src[s].poller /\ x.out = None
        /\ x.at = src[s].at /\ x.sql = src[s].sql /\ x.awaiting = src[s].awaiting
    BY <1>1 DEF SourceStates
  <2> HIDE DEF x
  <2>3. Reads(x, poller')
    BY <1>1, <2>1, <2>2 DEF Reads
  <2> QED
    BY <1>3, <2>1, <2>2, <2>3, OwnOne
<1>11. CASE OnStop(s)
  <2>1. src' = [src EXCEPT ![s] = NoSource] /\ poller' = Retired(src[s].poller)
    BY <1>11 DEF OnStop
  <2>2. NoSource.conn = None /\ NoSource.poller = None /\ NoSource.out = None /\ NoSource.awaiting = "no"
    BY DEF NoSource
  <2>3. Reads(NoSource, poller')
    BY <2>2 DEF Reads
  <2> QED
    BY <1>2, <2>1, <2>2, <2>3, OwnOne
<1> QED
  BY <1>4, <1>5, <1>6, <1>7, <1>8, <1>9, <1>10, <1>11 DEF Source, Incoming

(* What a fetch does to a source: all but its wait and its stop is kept,   *)
(* and a new one has nothing yet.                                          *)
Kept(x, y) ==
    /\ y.conn = x.conn /\ y.poller = x.poller /\ y.out = x.out
    /\ y.at = x.at /\ y.sql = x.sql /\ y.epoch = x.epoch
Blank(x) == x.conn = None /\ x.poller = None /\ x.out = None /\ x.awaiting = "no"

LEMMA BegunShape ==
    ASSUME TypeOK, FetchBegins, NEW s \in Sources
    PROVE  /\ Kept(src[s], src'[s]) /\ src'[s].stop = src[s].stop
           /\ src'[s].awaiting = IF src[s].awaiting = "asked" THEN "covered" ELSE src[s].awaiting
<1>1. src[s] \in SourceStates
  BY DEF TypeOK
<1>2. src'[s] = [src[s] EXCEPT !.awaiting = IF @ = "asked" THEN "covered" ELSE @]
  BY DEF FetchBegins
<1> QED
  BY <1>1, <1>2 DEF Kept, SourceStates

LEMMA AppliedShape ==
    ASSUME TypeOK, FetchApplied, NEW s \in Sources
    PROVE  \/ /\ Kept(src[s], src'[s])
              /\ src'[s].awaiting = IF src[s].awaiting = "covered" THEN "confirmed" ELSE src[s].awaiting
              /\ ~src'[s].stop => ~src[s].stop /\ (s = running => Unchanged(fetch))
           \/ Blank(src'[s])
<1> DEFINE told == [t \in Sources |->
                      [src[t] EXCEPT !.awaiting = IF src[t].awaiting = "covered"
                                                  THEN "confirmed" ELSE src[t].awaiting,
                                     !.stop = src[t].stop \/ (t = running /\ ~Unchanged(fetch))]]
           new(sql, k) == [NoSource EXCEPT !.at = "away", !.sql = sql, !.permit = k]
<1>1. src[s] \in SourceStates
  BY DEF TypeOK
<1> DEFINE with(a, b) == [src[s] EXCEPT !.awaiting = a, !.stop = b]
           wait == IF src[s].awaiting = "covered" THEN "confirmed" ELSE src[s].awaiting
           halt == src[s].stop \/ (s = running /\ ~Unchanged(fetch))
<1>2. \A a, b : Kept(src[s], with(a, b)) /\ with(a, b).awaiting = a /\ with(a, b).stop = b
  BY <1>1 DEF Kept, SourceStates
<1>3. told[s] = with(wait, halt) /\ told = [t \in Sources |-> told[t]]
  OBVIOUS
<1>4. Kept(src[s], told[s]) /\ told[s].awaiting = wait /\ told[s].stop = halt
  <2> HIDE DEF told, wait, halt, with
  <2> QED
    BY <1>2, <1>3
<1>5. /\ Kept(src[s], told[s])
      /\ told[s].awaiting = IF src[s].awaiting = "covered" THEN "confirmed" ELSE src[s].awaiting
      /\ ~told[s].stop => ~src[s].stop /\ (s = running => Unchanged(fetch))
  <2> HIDE DEF told
  <2> QED
    BY <1>4, Zenon
<1>6. \A sql, k : Blank(new(sql, k))
  BY DEF Blank, NoSource
<1> HIDE DEF wait, halt, with
<1>7. src'[s] = told[s] \/ \E sql, k : src'[s] = new(sql, k)
  <2>1. CASE Unchanged(fetch) \/ ~fetch.on
    BY <2>1, Zenon DEF FetchApplied
  <2>2. CASE ~(Unchanged(fetch) \/ ~fetch.on)
    <3> DEFINE k == IF Retained(fetch) # None THEN Retained(fetch) ELSE Any(NewPermits)
    <3>1. src' = [told EXCEPT ![Any(FreeSources)] = new(fetch.sql, k)]
      BY <2>2, Zenon DEF FetchApplied
    <3> HIDE DEF new, k, told
    <3>2. src'[s] = told[s] \/ src'[s] = new(fetch.sql, k)
      BY <1>3, <3>1
    <3> QED
      BY <3>2
  <2> QED
    BY <2>1, <2>2, Zenon
<1> HIDE DEF told, new
<1>8. CASE src'[s] = told[s]
  BY <1>5, <1>8
<1>9. CASE \E sql, k : src'[s] = new(sql, k)
  BY <1>6, <1>9
<1> QED
  BY <1>7, <1>8, <1>9

LEMMA OwnKept ==
    ASSUME Own, UNCHANGED poller,
           \A s \in Sources : \/ /\ Kept(src[s], src'[s])
                                 /\ src'[s].awaiting # "no" => src[s].awaiting # "no"
                              \/ Blank(src'[s])
    PROVE  Own'
<1>1. ASSUME NEW s \in Sources PROVE Reads(src'[s], poller')
  BY DEF Own, Reads, Kept, Blank
<1> QED
  BY <1>1 DEF Own, Kept, Blank

LEMMA SupervisorOwn ==
    ASSUME TypeOK, Own, Supervisor PROVE Own'
<1>1. CASE TimerFires \/ FetchFails
  BY <1>1 DEF TimerFires, FetchFails, Own, Reads
<1>2. CASE FetchBegins
  <2>1. poller' = poller
    BY <1>2 DEF FetchBegins
  <2>2. ASSUME NEW s \in Sources
        PROVE  Kept(src[s], src'[s]) /\ (src'[s].awaiting # "no" => src[s].awaiting # "no")
    BY <1>2, BegunShape
  <2> QED
    BY <2>1, <2>2, OwnKept
<1>3. CASE FetchApplied
  <2>1. poller' = poller
    BY <1>3, Zenon DEF FetchApplied
  <2>2. ASSUME NEW s \in Sources
        PROVE  \/ /\ Kept(src[s], src'[s])
                  /\ src'[s].awaiting # "no" => src[s].awaiting # "no"
               \/ Blank(src'[s])
    BY <1>3, AppliedShape
  <2> QED
    BY <2>1, <2>2, OwnKept
<1> QED
  BY <1>1, <1>2, <1>3 DEF Supervisor

LEMMA StepOwn ==
    ASSUME Sound, Own, [Next]_vars PROVE Own'
<1>1. TypeOK /\ Shape /\ Timely
  BY DEF Sound
<1>2. CASE UNCHANGED <<src, poller>>
  BY <1>2 DEF Own, Reads
<1>3. ASSUME Collection \/ Registry \/ (\E c \in Conns : Stream(c) \/ Break(c)) \/ UNCHANGED vars
      PROVE  UNCHANGED <<src, poller>>
  <2>1. Collection => UNCHANGED <<src, poller>>
    BY DEF Collection, CollectionStopped, CollectionStarting, CollectionStarted, CollectionFaulted,
           bridgeVars
  <2>2. Registry => UNCHANGED <<src, poller>>
    <3>1. Save => UNCHANGED bridgeVars
      BY Zenon DEF Save
    <3>2. Commit => UNCHANGED bridgeVars
      BY Zenon DEF Commit
    <3> QED
      BY <3>1, <3>2 DEF Registry, bridgeVars
  <2>3. (\E c \in Conns : Stream(c) \/ Break(c)) => UNCHANGED <<src, poller>>
    BY DEF Stream, SendState, HubEnds, HubLoses, Leave, HandleValues, Break, bridgeVars
  <2>4. UNCHANGED vars => UNCHANGED <<src, poller>>
    BY DEF vars
  <2> QED
    BY <1>3, <2>1, <2>2, <2>3, <2>4
<1>4. ASSUME NEW p \in Pollers, Poller(p) PROVE Own'
  BY <1>1, <1>4, PollerOwn
<1>5. ASSUME NEW s \in Sources, Source(s) PROVE Own'
  BY <1>1, <1>5, SourceOwn
<1>6. CASE Supervisor
  BY <1>1, <1>6, SupervisorOwn
<1> QED
  BY <1>2, <1>3, <1>4, <1>5, <1>6 DEF Next

(* The turns of the Hub leave the ends and the queues of the streams.      *)
Quiet(c) ==
    /\ conn'[c].hub = conn[c].hub /\ conn'[c].bridge = conn[c].bridge
    /\ conn'[c].up = conn[c].up /\ conn'[c].down = conn[c].down

LEMMA UnreadMarks ==
    ASSUME TypeOK, NEW cs \in {conn, EndWs(conn, "changed")}, NEW c \in Conns
    PROVE  /\ Unread(cs)[c].hub = conn[c].hub /\ Unread(cs)[c].bridge = conn[c].bridge
           /\ Unread(cs)[c].up = conn[c].up /\ Unread(cs)[c].down = conn[c].down
           /\ conn[c].hub => Unread(cs)[c].unread
<1>1. cs \in [Conns -> ConnStates]
  BY HubTypes DEF TypeOK
<1>2. cs[c].hub = conn[c].hub /\ cs[c].bridge = conn[c].bridge /\ cs[c].up = conn[c].up
      /\ cs[c].down = conn[c].down
  <2>1. conn \in [Conns -> ConnStates]
    BY DEF TypeOK
  <2>2. \A why : [conn[c] EXCEPT !.ended = why].hub = conn[c].hub
          /\ [conn[c] EXCEPT !.ended = why].bridge = conn[c].bridge
          /\ [conn[c] EXCEPT !.ended = why].up = conn[c].up
          /\ [conn[c] EXCEPT !.ended = why].down = conn[c].down
    BY <2>1 DEF ConnStates
  <2>3. \A why : EndWs(conn, why)[c] \in {conn[c], [conn[c] EXCEPT !.ended = why]}
    BY <2>1 DEF EndWs
  <2>4. CASE cs = conn
    BY <2>4
  <2>5. CASE cs = EndWs(conn, "changed")
    <3>1. cs[c] \in {conn[c], [conn[c] EXCEPT !.ended = "changed"]}
      BY <2>3, <2>5
    <3> QED
      BY <2>2, <3>1
  <2> QED
    BY <2>4, <2>5
<1> QED
  BY <1>1, <1>2 DEF Unread, ConnStates

(* A commit: nothing of the slot's, a new switch, or new settings, which   *)
(* every stream that is open is to be told of.                             *)
CommitIdle ==
    /\ UNCHANGED <<slot, conn, folded>>
    /\ ~skipped' => ~skipped /\ \A q : Among(saves, q) => Among(saves', q)
CommitTurns ==
    /\ slot'.epoch = slot.epoch + 1 /\ slot'.held = None
    /\ conn' \in {Unread(conn), Unread(EndWs(conn, "changed"))}
    /\ slot'.notice.epoch = slot.epoch + 1
    /\ \/ slot'.reg = None
       \/ slot'.notice.changed /\ slot'.reg = slot.reg

LEMMA SinceOurs ==
    ASSUME TypeOK, 2 \in 1..Len(saves), saves[2].sql = saves[1].sql, NEW q, Among(saves, q)
    PROVE  Among(Since(2), q)
<1>1. PICK i \in 1..Len(saves) : saves[i].sql = q
  BY DEF Among, TypeOK
<1>2. Len(saves) \in Nat /\ Len(Since(2)) = Len(saves) - 1
      /\ \A j \in 1..(Len(saves) - 1) : Since(2)[j] = saves[j + 1]
  BY DEF TypeOK, Since
<1>3. DOMAIN Since(2) = 1..(Len(saves) - 1)
  BY <1>2 DEF Since, TypeOK
<1>4. CASE i = 1
  <2>1. 1 \in 1..(Len(saves) - 1) /\ Since(2)[1] = saves[2]
    BY <1>2
  <2> QED
    BY <1>1, <1>3, <1>4, <2>1 DEF Among
<1>5. CASE i # 1
  <2>1. i - 1 \in 1..(Len(saves) - 1) /\ Since(2)[i - 1] = saves[i]
    BY <1>2, <1>5
  <2> QED
    BY <1>1, <1>3, <2>1 DEF Among
<1> QED
  BY <1>4, <1>5

LEMMA CommitShape == ASSUME TypeOK, Commit PROVE CommitIdle \/ CommitTurns
<1>1. PICK r \in 2..Len(saves) :
        LET bridge == saves[r].sql # Committed.sql
            switched == saves[r].on # Committed.on
        IN  /\ saves' = Since(r)
            /\ skipped' = (skipped \/ (r > 2 /\ ~bridge))
            /\ IF bridge \/ switched
               THEN /\ slot' = [slot EXCEPT !.held = None, !.epoch = slot.epoch + 1,
                                            !.notice = Notify(bridge, Collecting, slot.epoch + 1),
                                            !.reg = IF switched THEN None ELSE slot.reg]
                    /\ conn' = Unread(IF switched THEN EndWs(conn, "changed") ELSE conn)
                    /\ folded' = (folded \/ (Folds(bridge) /\ ~switched))
               ELSE UNCHANGED <<slot, conn, folded>>
  BY Zenon DEF Commit, bridgeVars
<1> DEFINE bridge == saves[r].sql # Committed.sql
           switched == saves[r].on # Committed.on
           note == Notify(bridge, Collecting, slot.epoch + 1)
           reg == IF switched THEN None ELSE slot.reg
<1>2. CASE bridge \/ switched
  <2>1. Turned(note, reg)
    BY <1>1, <1>2 DEF Turned
  <2>2. slot'.epoch = slot.epoch + 1 /\ slot'.held = None /\ slot'.notice = note /\ slot'.reg = reg
    <3> HIDE DEF note, reg
    <3> QED
      BY <2>1, TurnedSlot
  <2>3. note.epoch = slot.epoch + 1 /\ note.changed = bridge
    BY DEF Notify
  <2>4. conn' = Unread(conn) \/ conn' = Unread(EndWs(conn, "changed"))
    BY <1>1, <1>2
  <2>5. reg = None \/ (bridge /\ reg = slot.reg)
    BY <1>2
  <2> HIDE DEF bridge, switched, note, reg
  <2> QED
    BY <2>2, <2>3, <2>4, <2>5 DEF CommitTurns
<1>3. CASE ~(bridge \/ switched)
  <2>1. UNCHANGED <<slot, conn, folded>> /\ saves' = Since(r) /\ (skipped' = (skipped \/ r > 2))
    BY <1>1, <1>3
  <2>2. saves[r].sql = saves[1].sql
    BY <1>3 DEF Committed, TypeOK
  <2>3. ASSUME ~skipped' PROVE ~skipped /\ r = 2
    <3>1. ~skipped /\ ~(r > 2)
      BY <2>1, <2>3, Zenon
    <3> QED
      BY <3>1 DEF TypeOK
  <2>4. ASSUME ~skipped', NEW q, Among(saves, q) PROVE Among(saves', q)
    BY <2>1, <2>2, <2>3, <2>4, SinceOurs
  <2> QED
    BY <2>1, <2>3, <2>4 DEF CommitIdle
<1> QED
  BY <1>2, <1>3

(* What the turns of the Hub do to the slot.                               *)
LEMMA TurnShapes ==
    ASSUME TypeOK
    PROVE  /\ CollectionStopped =>
                /\ slot'.epoch = slot.epoch + 1 /\ slot'.held = None /\ slot'.reg = slot.reg
                /\ slot'.notice = Notify(FALSE, FALSE, slot.epoch + 1)
           /\ CollectionStarting =>
                /\ slot'.epoch = slot.epoch + 1 /\ slot'.held = None /\ slot'.reg = slot.reg
                /\ slot'.notice = slot.notice
           /\ CollectionStarted =>
                /\ slot'.epoch = slot.epoch /\ slot'.held = slot.held /\ slot'.reg = slot.reg
                /\ slot'.notice = Notify(FALSE, TRUE, slot.epoch)
<1>1. slot \in SlotStates
  BY DEF TypeOK
<1>2. ASSUME CollectionStopped
      PROVE  /\ slot'.epoch = slot.epoch + 1 /\ slot'.held = None /\ slot'.reg = slot.reg
             /\ slot'.notice = Notify(FALSE, FALSE, slot.epoch + 1)
  <2>1. slot' = [slot EXCEPT !.held = None, !.epoch = slot.epoch + 1, !.collecting = FALSE,
                             !.notice = Notify(FALSE, FALSE, slot.epoch + 1)]
    BY <1>2 DEF CollectionStopped
  <2> QED
    BY <1>1, <2>1 DEF SlotStates
<1>3. ASSUME CollectionStarting
      PROVE  /\ slot'.epoch = slot.epoch + 1 /\ slot'.held = None /\ slot'.reg = slot.reg
             /\ slot'.notice = slot.notice
  <2>1. slot' = [slot EXCEPT !.held = None, !.epoch = slot.epoch + 1]
    BY <1>3 DEF CollectionStarting
  <2> QED
    BY <1>1, <2>1 DEF SlotStates
<1>4. ASSUME CollectionStarted
      PROVE  /\ slot'.epoch = slot.epoch /\ slot'.held = slot.held /\ slot'.reg = slot.reg
             /\ slot'.notice = Notify(FALSE, TRUE, slot.epoch)
  <2>1. slot' = [slot EXCEPT !.collecting = TRUE, !.notice = Notify(FALSE, TRUE, slot.epoch)]
    BY <1>4 DEF CollectionStarted
  <2> QED
    BY <1>1, <2>1 DEF SlotStates
<1> QED
  BY <1>2, <1>3, <1>4

LEMMA HubQuiet ==
    ASSUME TypeOK, Collection \/ Registry
    PROVE  /\ UNCHANGED <<src, poller, fetch>> /\ slot'.reg \in {None, slot.reg}
           /\ \A c \in Conns : Quiet(c)
           /\ \/ slot'.notice = slot.notice /\ UNCHANGED conn
              \/ ~slot'.notice.changed
              \/ slot'.notice.epoch = slot.epoch + 1
<1>1. \A cs \in {conn, EndWs(conn, "changed")} : conn' = Unread(cs) => \A c \in Conns : Quiet(c)
  BY UnreadMarks DEF Quiet
<1>2. conn' = conn => \A c \in Conns : Quiet(c)
  BY DEF Quiet
<1>3. CASE CollectionStopped
  <2>1. conn' = Unread(conn) /\ UNCHANGED <<src, poller, fetch>>
    BY <1>3 DEF CollectionStopped, bridgeVars
  <2> QED
    BY <1>1, <1>3, <2>1, TurnShapes DEF Notify
<1>4. CASE CollectionStarting
  <2>1. conn' = conn /\ UNCHANGED <<src, poller, fetch>>
    BY <1>4 DEF CollectionStarting, bridgeVars
  <2> QED
    BY <1>2, <1>4, <2>1, TurnShapes
<1>5. CASE CollectionStarted
  <2>1. conn' = Unread(conn) /\ UNCHANGED <<src, poller, fetch>>
    BY <1>5 DEF CollectionStarted, bridgeVars
  <2> QED
    BY <1>1, <1>5, <2>1, TurnShapes DEF Notify
<1>6. CASE CollectionFaulted
  BY <1>2, <1>6 DEF CollectionFaulted, bridgeVars
<1>7. CASE Save
  <2>1. UNCHANGED <<slot, conn, bridgeVars>>
    BY <1>7 DEF Save
  <2> QED
    BY <1>2, <2>1 DEF bridgeVars
<1>8. CASE Commit
  <2>1. UNCHANGED bridgeVars
    BY <1>8, Zenon DEF Commit
  <2>2. CASE CommitIdle
    BY <1>2, <2>1, <2>2 DEF CommitIdle, bridgeVars
  <2>3. CASE CommitTurns
    BY <1>1, <2>1, <2>3 DEF CommitTurns, bridgeVars
  <2> QED
    BY <1>8, <2>2, <2>3, CommitShape
<1> QED
  BY <1>3, <1>4, <1>5, <1>6, <1>7, <1>8 DEF Collection, Registry

(* What a stream does: the Hub sends, leaves or takes a value in, or the   *)
(* link breaks.                                                            *)
Sends(c) ==
    /\ UNCHANGED slot /\ conn[c].unread /\ ~conn'[c].unread
    /\ conn'[c].hub /\ conn'[c].bridge = conn[c].bridge /\ conn'[c].up = conn[c].up
    /\ conn'[c].down = Say(c, [op |-> "state", notice |-> slot.notice])
Leaves(c) ==
    /\ slot'.held = slot.held /\ slot'.reg = OffRegister(c) /\ ~conn'[c].unread
    /\ conn'[c].down = <<>> \/ \E why \in Reasons :
                                 conn'[c].down = Append(conn[c].down, [op |-> "close", why |-> why])
Takes(c) ==
    /\ conn[c].up # <<>> /\ slot.reg = c /\ slot'.reg = c
    /\ \/ slot'.held = slot.held
       \/ Head(conn[c].up).epoch = slot.epoch /\ slot'.held.sql = Head(conn[c].up).reading.sql
    /\ conn'[c].hub = conn[c].hub /\ conn'[c].bridge = conn[c].bridge
    /\ conn'[c].unread = conn[c].unread /\ conn'[c].down = conn[c].down
    /\ conn'[c].up = Tail(conn[c].up)
Breaks(c) ==
    /\ UNCHANGED slot /\ (conn[c].hub => conn'[c].hub) /\ ~conn'[c].bridge
    /\ conn'[c].down = <<>> /\ (conn'[c].unread => conn[c].unread)
    /\ conn'[c].up \in {conn[c].up, <<>>}

LEMMA BreakValue ==
    ASSUME TypeOK, NEW c \in Conns, conn' = Detached(c)
    PROVE  /\ (conn[c].hub => conn'[c].hub) /\ ~conn'[c].bridge
           /\ conn'[c].down = <<>> /\ (conn'[c].unread => conn[c].unread)
           /\ conn'[c].up \in {conn[c].up, <<>>}
           /\ \A d \in Conns \ {c} : conn'[d] = conn[d]
<1>1. conn[c] \in ConnStates /\ conn \in [Conns -> ConnStates]
  BY DEF TypeOK
<1>2. conn'[c] = (IF conn[c].hub THEN [conn[c] EXCEPT !.bridge = FALSE, !.down = <<>>] ELSE Free)
      /\ \A d \in Conns \ {c} : conn'[d] = conn[d]
  BY <1>1 DEF Detached
<1> QED
  BY <1>1, <1>2 DEF ConnStates, Free

LEMMA StreamShape ==
    ASSUME TypeOK, NEW c \in Conns, Stream(c) \/ Break(c)
    PROVE  /\ UNCHANGED <<saves, src, poller, fetch, folded, skipped>>
           /\ slot'.epoch = slot.epoch /\ slot'.notice = slot.notice
           /\ \A d \in Conns \ {c} : conn'[d] = conn[d]
           /\ Sends(c) \/ Leaves(c) \/ Takes(c) \/ Breaks(c)
<1>1. slot \in SlotStates /\ conn \in [Conns -> ConnStates] /\ conn[c] \in ConnStates
  BY DEF TypeOK
<1>2. CASE SendState(c)
  <2> DEFINE y == Say(c, [op |-> "state", notice |-> slot.notice])
  <2>1. conn' = [conn EXCEPT ![c].unread = FALSE, ![c].down = y]
        /\ conn[c].hub /\ conn[c].unread /\ UNCHANGED <<hubVars, bridgeVars, folded, skipped>>
    BY <1>2 DEF SendState
  <2> HIDE DEF y
  <2>2. conn'[c] = [conn[c] EXCEPT !.unread = FALSE, !.down = y]
        /\ \A d \in Conns \ {c} : conn'[d] = conn[d]
    BY <1>1, <2>1
  <2>3. conn'[c].hub /\ conn'[c].bridge = conn[c].bridge /\ conn'[c].up = conn[c].up
        /\ ~conn'[c].unread /\ conn'[c].down = y
    BY <1>1, <2>1, <2>2 DEF ConnStates
  <2> QED
    BY <2>1, <2>2, <2>3 DEF Sends, hubVars, bridgeVars, y
<1>3. CASE HubEnds(c) \/ HubLoses(c)
  <2>1. PICK why \in Reasons : Leave(c, why)
    BY <1>1, <1>3 DEF HubEnds, HubLoses, ConnStates, Reasons
  <2>2. /\ conn' = [conn EXCEPT ![c] =
                  IF conn[c].bridge
                  THEN [conn[c] EXCEPT !.hub = FALSE, !.up = <<>>, !.unread = FALSE, !.ended = "no",
                                 !.down = Append(conn[c].down, [op |-> "close", why |-> why])]
                  ELSE Free]
        /\ slot' = [slot EXCEPT !.reg = OffRegister(c)]
        /\ UNCHANGED <<saves, bridgeVars, folded, skipped>>
    BY <2>1 DEF Leave
  <2>3. slot'.epoch = slot.epoch /\ slot'.notice = slot.notice /\ slot'.held = slot.held
        /\ slot'.reg = OffRegister(c)
    BY <1>1, <2>2 DEF SlotStates
  <2>4. /\ ~conn'[c].unread
        /\ conn'[c].down = <<>> \/ conn'[c].down = Append(conn[c].down, [op |-> "close", why |-> why])
        /\ \A d \in Conns \ {c} : conn'[d] = conn[d]
    BY <1>1, <2>2 DEF ConnStates, Free
  <2> QED
    BY <2>2, <2>3, <2>4 DEF Leaves, bridgeVars
<1>4. CASE HandleValues(c)
  <2> DEFINE m == Head(conn[c].up)
  <2>1. /\ conn[c].up # <<>> /\ slot.reg = c /\ slot' = Applied(c, m)
        /\ conn' = [conn EXCEPT ![c].up = Tail(@)]
        /\ UNCHANGED <<saves, bridgeVars, folded, skipped>>
    BY <1>4 DEF HandleValues, IsCurrent
  <2>2. conn'[c] = [conn[c] EXCEPT !.up = Tail(conn[c].up)] /\ \A d \in Conns \ {c} : conn'[d] = conn[d]
    BY <1>1, <2>1
  <2>3. conn'[c].hub = conn[c].hub /\ conn'[c].bridge = conn[c].bridge
        /\ conn'[c].unread = conn[c].unread /\ conn'[c].down = conn[c].down
        /\ conn'[c].up = Tail(conn[c].up)
    BY <1>1, <2>2 DEF ConnStates
  <2>4. slot'.epoch = slot.epoch /\ slot'.notice = slot.notice /\ slot'.reg = slot.reg
        /\ (slot'.held = slot.held \/ (m.epoch = slot.epoch /\ slot'.held.sql = m.reading.sql))
    <3> HIDE DEF m
    <3> QED
      BY <1>1, <2>1 DEF Applied, SlotStates
  <2> QED
    BY <2>1, <2>2, <2>3, <2>4 DEF Takes, bridgeVars
<1>5. CASE Break(c)
  <2>1. conn' = Detached(c) /\ UNCHANGED <<hubVars, bridgeVars, folded, skipped>>
    BY <1>5 DEF Break, Detached
  <2> QED
    BY <2>1, BreakValue DEF Breaks, hubVars, bridgeVars
<1> QED
  BY <1>2, <1>3, <1>4, <1>5 DEF Stream

(* What a source does to the streams.                                      *)
Opens(s, d) ==
    /\ d \in Conns /\ slot'.reg = d /\ conn[d] = Free /\ \A t \in Sources : src[t].conn # d
    /\ conn'[d] = [Free EXCEPT !.hub = TRUE, !.bridge = TRUE,
                               !.down = <<[op |-> "welcome",
                                           notice |-> Notify(FALSE, Collecting, slot.epoch)]>>]
    /\ \A e \in Conns \ {d} : Quiet(e) /\ conn'[e].unread = conn[e].unread
    /\ src' = [src EXCEPT ![s] = [src[s] EXCEPT !.at = "greeting", !.conn = d]]

LEMMA ConnectShape ==
    ASSUME TypeOK, NEW s \in Sources, Connect(s)
    PROVE  /\ UNCHANGED <<saves, poller, fetch, folded, skipped>>
           /\ slot'.epoch = slot.epoch /\ slot'.notice = slot.notice /\ slot'.held = slot.held
           /\ src[s].at = "away" /\ \E d \in Conns : Opens(s, d)
<1> DEFINE d == Any(FreeConns)
           new == [Free EXCEPT !.hub = TRUE, !.bridge = TRUE,
                               !.down = <<[op |-> "welcome",
                                           notice |-> Notify(FALSE, Collecting, slot.epoch)]>>]
<1>1. slot \in SlotStates /\ conn \in [Conns -> ConnStates]
  BY DEF TypeOK
<1>2. /\ conn' = [EndWs(conn, "superseded") EXCEPT ![d] = new]
      /\ slot' = [slot EXCEPT !.reg = d]
      /\ src' = [src EXCEPT ![s].at = "greeting", ![s].conn = d]
      /\ UNCHANGED <<saves, poller, fetch, folded, skipped>>
      /\ FreeConns # {} /\ src[s].at = "away"
  BY DEF Connect
<1>3. d \in FreeConns
  BY <1>2, AnyMember
<1> HIDE DEF d, new
<1>4. d \in Conns /\ conn[d] = Free /\ \A t \in Sources : src[t].conn # d
  BY <1>3 DEF FreeConns
<1>5. slot'.epoch = slot.epoch /\ slot'.notice = slot.notice /\ slot'.held = slot.held /\ slot'.reg = d
  BY <1>1, <1>2 DEF SlotStates
<1>6. src' = [src EXCEPT ![s] = [src[s] EXCEPT !.at = "greeting", !.conn = d]]
  BY <1>2 DEF TypeOK
<1>7. conn'[d] = new /\ \A e \in Conns \ {d} : conn'[e] = EndWs(conn, "superseded")[e]
  BY <1>2, <1>4, HubTypes
<1>8. \A e \in Conns : /\ EndWs(conn, "superseded")[e].hub = conn[e].hub
                       /\ EndWs(conn, "superseded")[e].bridge = conn[e].bridge
                       /\ EndWs(conn, "superseded")[e].up = conn[e].up
                       /\ EndWs(conn, "superseded")[e].down = conn[e].down
                       /\ EndWs(conn, "superseded")[e].unread = conn[e].unread
  BY <1>1 DEF EndWs, ConnStates
<1>9. \A e \in Conns \ {d} : Quiet(e) /\ conn'[e].unread = conn[e].unread
  BY <1>7, <1>8 DEF Quiet
<1>10. Opens(s, d)
  BY <1>4, <1>5, <1>6, <1>7, <1>9 DEF Opens, new
<1> QED
  BY <1>2, <1>4, <1>5, <1>10

(* What a source that has a stream does to it: it hears the next message,  *)
(* gives up its end, sends a reading, or does nothing.                     *)
Hearing(c) ==
    /\ conn[c].down # <<>> /\ conn'[c].down = Tail(conn[c].down)
    /\ conn'[c].hub = conn[c].hub /\ conn'[c].bridge = conn[c].bridge
    /\ conn'[c].up = conn[c].up /\ conn'[c].unread = conn[c].unread
GivenUp(c) ==
    /\ (conn[c].hub => conn'[c].hub) /\ ~conn'[c].bridge
    /\ conn'[c].down = <<>> /\ (conn'[c].unread => conn[c].unread)
    /\ conn'[c].up \in {conn[c].up, <<>>}
Sending(s, c) ==
    /\ conn[c].bridge /\ conn'[c].down = conn[c].down
    /\ conn'[c].hub = conn[c].hub /\ conn'[c].bridge = conn[c].bridge
    /\ conn'[c].unread = conn[c].unread
    /\ conn'[c].up \in {conn[c].up,
                        Append(conn[c].up, [epoch |-> src[s].epoch, reading |-> src[s].out])}
Apart(s) == \A d \in Conns : d # src[s].conn => conn'[d] = conn[d]

LEMMA HeardShape ==
    ASSUME TypeOK, NEW s \in Sources, NEW op, Hears(s, op), src[s].conn \in Conns, conn' = Heard(s)
    PROVE  Hearing(src[s].conn) /\ Apart(s)
<1>1. conn \in [Conns -> ConnStates]
  BY DEF TypeOK
<1> QED
  BY <1>1 DEF Heard, Hears, Hearing, Apart, ConnStates

LEMMA DetachedShape ==
    ASSUME TypeOK, NEW s \in Sources, src[s].conn \in Conns, conn' = Detached(src[s].conn)
    PROVE  GivenUp(src[s].conn) /\ Apart(s)
BY BreakValue DEF GivenUp, Apart

LEMMA SendShape ==
    ASSUME TypeOK, Shape, NEW s \in Sources, Send(s)
    PROVE  /\ src[s].conn \in Conns /\ Sending(s, src[s].conn) /\ Apart(s)
           /\ src' = [src EXCEPT ![s] = [src[s] EXCEPT !.out = None]] /\ src[s].out # None
           /\ UNCHANGED <<saves, slot, poller, fetch, folded, skipped>>
<1> DEFINE c == src[s].conn
           v == [epoch |-> src[s].epoch, reading |-> src[s].out]
<1>1. conn \in [Conns -> ConnStates] /\ c \in Conns
  BY DEF TypeOK, Shape, Whole, Send
<1>2. /\ conn[c].bridge /\ src[s].out # None
      /\ conn' = [conn EXCEPT ![c].up = IF conn[c].hub THEN Append(@, v) ELSE @]
      /\ src' = [src EXCEPT ![s].out = None]
      /\ UNCHANGED <<saves, slot, poller, fetch, folded, skipped>>
  BY DEF Send, hubVars
<1>3. src' = [src EXCEPT ![s] = [src[s] EXCEPT !.out = None]]
  BY <1>2 DEF TypeOK
<1> HIDE DEF c, v
<1>4. /\ conn'[c].down = conn[c].down
      /\ conn'[c].hub = conn[c].hub /\ conn'[c].bridge = conn[c].bridge
      /\ conn'[c].unread = conn[c].unread
      /\ conn'[c].up \in {conn[c].up, Append(conn[c].up, v)}
      /\ \A d \in Conns : d # c => conn'[d] = conn[d]
  BY <1>1, <1>2 DEF ConnStates
<1> QED
  BY <1>1, <1>2, <1>3, <1>4 DEF Sending, Apart, c, v

(* A source that ends its session, or itself.                              *)
LEMMA EndShape ==
    ASSUME TypeOK, Shape, Own, NEW s \in Sources, OnClose(s) \/ OnLost(s) \/ OnStop(s)
    PROVE  /\ UNCHANGED <<saves, slot, fetch, folded, skipped>> /\ Apart(s)
           /\ src[s].conn \in Conns => UNCHANGED conn \/ GivenUp(src[s].conn)
           /\ src[s].conn \in Conns /\ UNCHANGED conn => ~conn[src[s].conn].bridge
           /\ \E x : src' = [src EXCEPT ![s] = x] /\ Blank(x)
<1>1. conn \in [Conns -> ConnStates] /\ src[s] \in SourceStates
  BY DEF TypeOK
<1>2. Blank(NoSource)
  BY DEF Blank, NoSource
<1>3. Blank(Away(src[s]))
  BY <1>1 DEF Blank, Away, SourceStates
<1>4. UNCHANGED conn => Apart(s)
  BY DEF Apart
<1>5. CASE OnClose(s)
  <2>1. src[s].conn \in Conns
    BY <1>5 DEF OnClose, Hears, Shape, Whole
  <2>2. /\ src' = [src EXCEPT ![s] = Away(src[s])] /\ conn' = Detached(src[s].conn)
        /\ UNCHANGED <<hubVars, fetch, folded, skipped>>
    BY <1>5 DEF OnClose
  <2>3. GivenUp(src[s].conn) /\ Apart(s)
    BY <2>1, <2>2, DetachedShape
  <2>4. UNCHANGED conn => ~conn[src[s].conn].bridge
    BY <2>3 DEF GivenUp
  <2> QED
    BY <1>3, <2>2, <2>3, <2>4 DEF hubVars
<1>6. CASE OnLost(s)
  <2>1. /\ src' = [src EXCEPT ![s] = Away(src[s])] /\ conn' = conn /\ ~conn[src[s].conn].bridge
        /\ UNCHANGED <<hubVars, fetch, folded, skipped>>
    BY <1>6 DEF OnLost
  <2> QED
    BY <1>3, <1>4, <2>1 DEF hubVars
<1>7. CASE OnStop(s)
  <2>1. /\ src' = [src EXCEPT ![s] = NoSource]
        /\ conn' = (IF src[s].conn # None /\ conn[src[s].conn].bridge
                    THEN Detached(src[s].conn) ELSE conn)
        /\ UNCHANGED <<hubVars, fetch, folded, skipped>>
    BY <1>7 DEF OnStop
  <2>2. CASE src[s].conn # None /\ conn[src[s].conn].bridge
    <3>1. src[s].conn \in Conns /\ conn' = Detached(src[s].conn)
      BY <1>1, <2>1, <2>2 DEF SourceStates
    <3>2. GivenUp(src[s].conn) /\ Apart(s)
      BY <3>1, DetachedShape
    <3>3. UNCHANGED conn => ~conn[src[s].conn].bridge
      BY <3>2 DEF GivenUp
    <3> QED
      BY <1>2, <2>1, <3>2, <3>3 DEF hubVars
  <2>3. CASE ~(src[s].conn # None /\ conn[src[s].conn].bridge)
    BY <1>2, <1>4, <2>1, <2>3, BridgeAssumption DEF hubVars
  <2> QED
    BY <2>2, <2>3
<1> QED
  BY <1>5, <1>6, <1>7

(* Resuming without a message.                                             *)
LEMMA GoOnShape ==
    ASSUME TypeOK, Own, NEW s \in Sources, OnConfirmed(s) \/ OnSlotFree(s)
    PROVE  /\ UNCHANGED <<saves, slot, conn, fetch, folded, skipped>>
           /\ src[s].at = "open" /\ ~src[s].stop /\ src[s].awaiting \in {"confirmed", "no"}
           /\ \E y \in SourceStates :
                /\ src' = [src EXCEPT ![s] = y] /\ y.conn = src[s].conn /\ y.at = "open" /\ ~y.stop
                /\ y.sql = src[s].sql /\ y.epoch = src[s].epoch /\ y.awaiting = "no"
<1>1. src[s] \in SourceStates /\ Reads(src[s], poller)
  BY DEF TypeOK, Own
<1>2. src[s].at = "open" /\ ~src[s].stop /\ src[s].awaiting \in {"confirmed", "no"}
  BY DEF OnConfirmed, OnSlotFree, CanStart, Wants
<1> DEFINE x == [src[s] EXCEPT !.awaiting = "no"]
<1>3. x \in SourceStates /\ x.conn = src[s].conn /\ x.poller = src[s].poller /\ x.out = src[s].out
      /\ x.at = "open" /\ ~x.stop /\ x.sql = src[s].sql /\ x.epoch = src[s].epoch /\ x.awaiting = "no"
  BY <1>1, <1>2 DEF SourceStates
<1>4. src[s].awaiting = "no" => x = src[s]
  BY <1>1 DEF SourceStates
<1> HIDE DEF x
<1>5. Reads(x, poller)
  BY <1>1, <1>2, <1>3 DEF Reads
<1>6. Resume(s, x, None) /\ UNCHANGED <<saves, slot, conn, fetch, folded, skipped>>
  <2>1. CASE OnConfirmed(s)
    BY <2>1 DEF OnConfirmed, hubVars, x
  <2>2. CASE OnSlotFree(s)
    BY <1>4, <2>2 DEF OnSlotFree, CanStart, Wants, hubVars
  <2> QED
    BY <2>1, <2>2
<1>7. PICK p \in Pollers \cup {None} : src' = [src EXCEPT ![s] = [x EXCEPT !.poller = p]]
  BY <1>3, <1>5, <1>6, OwnResume
<1> DEFINE y == [x EXCEPT !.poller = p]
<1>8. y \in SourceStates /\ y.conn = src[s].conn /\ y.at = "open" /\ ~y.stop
      /\ y.sql = src[s].sql /\ y.epoch = src[s].epoch /\ y.awaiting = "no"
  BY <1>3 DEF SourceStates
<1> HIDE DEF y
<1> QED
  BY <1>2, <1>6, <1>7, <1>8 DEF y

(* A source that hears of an epoch goes by it.                             *)
LEMMA WelcomeShape ==
    ASSUME TypeOK, Shape, Timely, NEW s \in Sources, OnWelcome(s)
    PROVE  /\ UNCHANGED <<saves, slot, fetch, folded, skipped>>
           /\ src[s].conn \in Conns /\ Hearing(src[s].conn) /\ Apart(s) /\ Heads(s).op = "welcome"
           /\ \E y : /\ src' = [src EXCEPT ![s] = y] /\ y.conn = src[s].conn /\ y.awaiting = "asked"
                     /\ y.epoch = Heads(s).notice.epoch /\ y.poller = None /\ y.out = None
<1> DEFINE n == Heads(s).notice
           y == Greeted(src[s], n)
<1>1. /\ Hears(s, "welcome") /\ src[s].at = "greeting" /\ src' = [src EXCEPT ![s] = y]
      /\ conn' = Heard(s) /\ UNCHANGED <<saves, slot, fetch, folded, skipped>>
  BY DEF OnWelcome, hubVars, Heads
<1>2. src[s].conn \in Conns /\ src[s] \in SourceStates /\ InTime(src[s], poller, slot.epoch)
  BY <1>1 DEF Shape, Whole, TypeOK, Timely, SourcesInTime
<1>3. Hearing(src[s].conn) /\ Apart(s) /\ Heads(s).op = "welcome"
  BY <1>1, <1>2, HeardShape DEF Heads, Hears
<1> HIDE DEF n
<1>4. y.conn = src[s].conn /\ y.awaiting = "asked" /\ y.epoch = n.epoch /\ y.poller = None /\ y.out = None
  BY <1>1, <1>2 DEF Greeted, SourceStates, InTime
<1> HIDE DEF y
<1> QED
  BY <1>1, <1>2, <1>3, <1>4 DEF n

LEMMA ToldShape ==
    ASSUME TypeOK, Shape, Timely, Own, NEW s \in Sources, OnState(s)
    PROVE  /\ UNCHANGED <<saves, slot, fetch, folded, skipped>>
           /\ src[s].at = "open" /\ ~src[s].stop
           /\ src[s].conn \in Conns /\ Hearing(src[s].conn) /\ Apart(s) /\ Heads(s).op = "state"
           /\ \E y : /\ src' = [src EXCEPT ![s] = y] /\ y.conn = src[s].conn /\ y.sql = src[s].sql
                     /\ y.at = "open" /\ ~y.stop /\ y.epoch = Heads(s).notice.epoch
                     /\ y.awaiting = IF Heads(s).notice.changed THEN "asked" ELSE src[s].awaiting
                     /\ \/ y.awaiting = "no"
                        \/ y.poller = None /\ y.out = None
                        \/ y.poller = src[s].poller /\ y.out = src[s].out /\ y.epoch = src[s].epoch
<1>1. PICK x \in SourceStates, r \in {None, src[s].poller} :
                /\ Resume(s, x, r) /\ Reads(x, poller) /\ (r # None => x.poller = None)
                /\ x.conn = src[s].conn /\ x.poller \in {None, src[s].poller} /\ x.sql = src[s].sql
                /\ x.at = "open" /\ ~x.stop /\ x.epoch = Heads(s).notice.epoch
                /\ x.awaiting = IF Heads(s).notice.changed THEN "asked" ELSE src[s].awaiting
                /\ \/ x.poller = None /\ x.out = None
                   \/ /\ x.poller = src[s].poller /\ x.out = src[s].out /\ x.epoch = src[s].epoch
                      /\ ~Heads(s).notice.changed
  BY StateShape
<1>2. /\ src[s].at = "open" /\ ~src[s].stop /\ src[s].conn \in Conns
      /\ Hears(s, "state") /\ conn' = Heard(s) /\ UNCHANGED <<saves, slot, fetch, folded, skipped>>
  BY StateShape
<1>3. PICK p \in Pollers \cup {None} :
        /\ src' = [src EXCEPT ![s] = [x EXCEPT !.poller = p]]
        /\ p # x.poller => Wants(x) /\ p # None
  BY <1>1, OwnResume
<1>4. Hearing(src[s].conn) /\ Apart(s) /\ Heads(s).op = "state"
  BY <1>2, HeardShape DEF Heads, Hears
<1> DEFINE y == [x EXCEPT !.poller = p]
<1>5. y.conn = x.conn /\ y.sql = x.sql /\ y.at = x.at /\ y.stop = x.stop /\ y.epoch = x.epoch
      /\ y.awaiting = x.awaiting /\ y.poller = p /\ y.out = x.out
  BY DEF SourceStates
<1> HIDE DEF y
<1>6. p # x.poller => y.awaiting = "no"
  BY <1>3, <1>5 DEF Wants
<1>7. \/ y.awaiting = "no"
      \/ y.poller = None /\ y.out = None
      \/ y.poller = src[s].poller /\ y.out = src[s].out /\ y.epoch = src[s].epoch
  BY <1>1, <1>5, <1>6
<1>8. src' = [src EXCEPT ![s] = y]
  BY <1>3 DEF y
<1> QED
  BY <1>1, <1>2, <1>4, <1>5, <1>7, <1>8

LEMMA SourceStreams ==
    ASSUME TypeOK, Shape, Timely, Own, NEW s \in Sources, Source(s), ~Connect(s)
    PROVE  /\ UNCHANGED slot /\ Apart(s)
           /\ src[s].conn \in Conns => LET c == src[s].conn
                                       IN  UNCHANGED conn \/ Hearing(c) \/ GivenUp(c) \/ Sending(s, c)
<1>1. CASE ConnectRefused(s)
  BY <1>1 DEF ConnectRefused, hubVars, Apart
<1>2. CASE OnWelcome(s)
  BY <1>2, WelcomeShape
<1>3. CASE OnState(s)
  BY <1>3, ToldShape
<1>4. CASE OnClose(s) \/ OnLost(s) \/ OnStop(s)
  BY <1>4, EndShape
<1>5. CASE OnConfirmed(s) \/ OnSlotFree(s)
  BY <1>5, GoOnShape DEF Apart
<1>6. CASE Send(s)
  BY <1>6, SendShape
<1> QED
  BY <1>1, <1>2, <1>3, <1>4, <1>5, <1>6 DEF Source, Incoming

(* The registered stream is one that the Hub has open.                     *)
LEMMA StepRegOpen ==
    ASSUME Sound, Own, RegOpen, [Next]_vars PROVE RegOpen'
<1>1. TypeOK /\ Shape /\ Timely
  BY DEF Sound
<1>2. slot.reg # None => slot.reg \in Conns
  BY <1>1 DEF TypeOK, SlotStates
<1>3. CASE Collection \/ Registry
  BY <1>1, <1>2, <1>3, HubQuiet DEF RegOpen, Quiet
<1>4. ASSUME NEW c \in Conns, Stream(c) \/ Break(c) PROVE RegOpen'
  <2>1. /\ \A d \in Conns \ {c} : conn'[d] = conn[d]
        /\ Sends(c) \/ Leaves(c) \/ Takes(c) \/ Breaks(c)
    BY <1>1, <1>4, StreamShape
  <2>2. CASE Leaves(c)
    BY <1>2, <2>1, <2>2 DEF RegOpen, Leaves, OffRegister
  <2>3. CASE Sends(c) \/ Takes(c) \/ Breaks(c)
    BY <1>2, <2>1, <2>3 DEF RegOpen, Sends, Takes, Breaks
  <2> QED
    BY <2>1, <2>2, <2>3
<1>5. ASSUME NEW s \in Sources, Source(s) PROVE RegOpen'
  <2>1. CASE Connect(s)
    <3>1. PICK d \in Conns : Opens(s, d)
      BY <1>1, <2>1, ConnectShape
    <3>2. conn'[d].hub
      BY <3>1 DEF Opens, Free
    <3> QED
      BY <3>1, <3>2 DEF RegOpen, Opens
  <2>2. CASE ~Connect(s)
    <3>1. /\ UNCHANGED slot /\ Apart(s)
          /\ src[s].conn \in Conns => LET c == src[s].conn
                                      IN  UNCHANGED conn \/ Hearing(c) \/ GivenUp(c) \/ Sending(s, c)
      BY <1>1, <1>5, <2>2, SourceStreams
    <3> QED
      BY <1>2, <3>1 DEF RegOpen, Apart, Hearing, GivenUp, Sending
  <2> QED
    BY <2>1, <2>2
<1>6. ASSUME UNCHANGED <<slot, conn>> PROVE RegOpen'
  BY <1>6 DEF RegOpen
<1>7. ASSUME NEW p \in Pollers, Poller(p) PROVE UNCHANGED <<slot, conn>>
  BY <1>7 DEF Poller, QueryBegins, QueryEnds, PollerStops, hubVars
<1>8. ASSUME Supervisor PROVE UNCHANGED <<slot, conn>>
  <2>1. TimerFires \/ FetchBegins \/ FetchFails => UNCHANGED <<slot, conn>>
    BY DEF TimerFires, FetchBegins, FetchFails, hubVars
  <2>2. FetchApplied => UNCHANGED hubVars /\ UNCHANGED conn
    BY Zenon DEF FetchApplied
  <2> QED
    BY <1>8, <2>1, <2>2 DEF Supervisor, hubVars
<1>9. UNCHANGED vars => UNCHANGED <<slot, conn>>
  BY DEF vars
<1> QED
  BY <1>3, <1>4, <1>5, <1>6, <1>7, <1>8, <1>9 DEF Next

(* How the streams keep their order.                                       *)
LEMMA HeraldSame ==
    ASSUME NEW k, NEW k2, NEW n, NEW e, k2.down = k.down, k2.unread => k.unread, Herald(k, n, e)
    PROVE  Herald(k2, n, e)
BY DEF Herald

LEMMA HeraldEmpty ==
    ASSUME NEW k, NEW k2, NEW n, NEW e, k2.down = <<>>, k2.unread => k.unread, Herald(k, n, e)
    PROVE  Herald(k2, n, e)
BY DEF Herald, InTurn, LastOf, Before

LEMMA HeraldSent ==
    ASSUME NEW k \in ConnStates, NEW k2 \in ConnStates, NEW n \in Notice, NEW e \in Nat, NEW m,
           k.unread, ~k2.unread, m.op = "state", m.notice = n, k2.down = Append(k.down, m),
           Herald(k, n, e)
    PROVE  Herald(k2, n, e)
<1> DEFINE q == k.down
<1>1. q \in Seq(Messages) /\ Len(q) \in Nat
  BY DEF ConnStates
<1>2. Len(k2.down) = Len(q) + 1 /\ k2.down[Len(q) + 1] = m /\ \A i \in 1..Len(q) : k2.down[i] = q[i]
  BY <1>1
<1>3. InTurn(q, e) /\ (n.changed => LastOf(q, e, n))
  BY DEF Herald
<1>4. ASSUME NEW i \in 1..Len(k2.down), Tells(k2.down[i])
      PROVE  e < k2.down[i].notice.epoch /\ Before(k2.down, i, k2.down[i].notice.epoch)
  <2>1. CASE i \in 1..Len(q)
    <3>1. Tells(q[i]) /\ k2.down[i] = q[i]
      BY <1>2, <1>4, <2>1
    <3>2. e < q[i].notice.epoch /\ Before(q, i, q[i].notice.epoch)
      BY <1>3, <2>1, <3>1 DEF InTurn
    <3> QED
      BY <1>1, <1>2, <2>1, <3>1, <3>2 DEF Before
  <2>2. CASE i = Len(q) + 1
    <3>1. e < n.epoch /\ Before(q, Len(q) + 1, n.epoch)
      BY <1>2, <1>3, <1>4, <2>2 DEF LastOf, Tells
    <3> QED
      BY <1>1, <1>2, <2>2, <3>1 DEF Before
  <2> QED
    BY <1>1, <1>2, <2>1, <2>2
<1> QED
  BY <1>4 DEF Herald, InTurn

LEMMA HeraldClosed ==
    ASSUME NEW k \in ConnStates, NEW k2 \in ConnStates, NEW n, NEW e, NEW m,
           ~k2.unread, m.op = "close", k2.down = Append(k.down, m), Herald(k, n, e)
    PROVE  Herald(k2, n, e)
<1> DEFINE q == k.down
<1>1. q \in Seq(Messages) /\ Len(q) \in Nat
  BY DEF ConnStates
<1>2. Len(k2.down) = Len(q) + 1 /\ k2.down[Len(q) + 1] = m /\ \A i \in 1..Len(q) : k2.down[i] = q[i]
  BY <1>1
<1>3. ASSUME NEW i \in 1..Len(k2.down), Tells(k2.down[i])
      PROVE  e < k2.down[i].notice.epoch /\ Before(k2.down, i, k2.down[i].notice.epoch)
  <2>1. i \in 1..Len(q) /\ Tells(q[i]) /\ k2.down[i] = q[i]
    BY <1>1, <1>2, <1>3 DEF Tells
  <2>2. e < q[i].notice.epoch /\ Before(q, i, q[i].notice.epoch)
    BY <2>1 DEF Herald, InTurn
  <2> QED
    BY <1>1, <1>2, <2>1, <2>2 DEF Before
<1> QED
  BY <1>3 DEF Herald, InTurn

LEMMA HeraldHeard ==
    ASSUME NEW k \in ConnStates, NEW k2 \in ConnStates, NEW n \in Notice, NEW e,
           k.down # <<>>, Head(k.down).op # "close", k2.down = Tail(k.down),
           k2.unread = k.unread, Herald(k, n, e)
    PROVE  Herald(k2, n, Head(k.down).notice.epoch)
<1> DEFINE q == k.down
           h == Head(q).notice.epoch
<1>1. q \in Seq(Messages) /\ Len(q) \in Nat \ {0} /\ Head(q) = q[1]
  BY DEF ConnStates
<1>2. Len(k2.down) = Len(q) - 1 /\ \A i \in 1..(Len(q) - 1) : k2.down[i] = q[i + 1]
  BY <1>1
<1>3. ASSUME NEW i \in 1..Len(k2.down), Tells(k2.down[i])
      PROVE  h < k2.down[i].notice.epoch /\ Before(k2.down, i, k2.down[i].notice.epoch)
  <2> DEFINE f == k2.down[i].notice.epoch
  <2>1. i + 1 \in 1..Len(q) /\ k2.down[i] = q[i + 1]
    BY <1>1, <1>2
  <2>2. Before(q, i + 1, f)
    BY <1>3, <2>1 DEF Herald, InTurn
  <2> HIDE DEF f
  <2>3. h < f
    BY <1>1, <2>1, <2>2 DEF Before
  <2>4. Before(k2.down, i, f)
    BY <1>1, <1>2, <2>1, <2>2 DEF Before
  <2> QED
    BY <2>3, <2>4 DEF f
<1>4. ASSUME k2.unread, n.changed PROVE LastOf(k2.down, h, n)
  <2>1. Before(q, Len(q) + 1, n.epoch)
    BY <1>4 DEF Herald, LastOf
  <2>2. h < n.epoch
    BY <1>1, <2>1 DEF Before
  <2>3. Before(k2.down, Len(k2.down) + 1, n.epoch)
    BY <1>1, <1>2, <2>1 DEF Before
  <2> QED
    BY <2>2, <2>3 DEF LastOf
<1> QED
  BY <1>3, <1>4 DEF Herald, InTurn

(* A turn of the Hub: a new notice that says that the settings changed is  *)
(* of an epoch that nobody has heard of.                                   *)
LEMMA HubHerald ==
    ASSUME TypeOK, Timely, Heralded, Collection \/ Registry PROVE Heralded'
<1>1. /\ UNCHANGED src /\ \A c \in Conns : Quiet(c)
      /\ \/ slot'.notice = slot.notice /\ UNCHANGED conn
         \/ ~slot'.notice.changed
         \/ slot'.notice.epoch = slot.epoch + 1
  BY HubQuiet
<1>2. ASSUME NEW s \in Sources, src[s].conn # None
      PROVE  Herald(conn'[src[s].conn], slot'.notice, src[s].epoch)
  <2> DEFINE k == conn[src[s].conn]
             k2 == conn'[src[s].conn]
  <2>1. src[s].conn \in Conns /\ src[s].epoch \in Nat /\ src[s].epoch <= slot.epoch /\ slot.epoch \in Nat
    BY <1>2 DEF TypeOK, SourceStates, SlotStates, Epochs, Timely, SourcesInTime, InTime
  <2>2. Herald(k, slot.notice, src[s].epoch) /\ k2.down = k.down
    BY <1>1, <1>2, <2>1 DEF Heralded, Quiet
  <2>3. InTurn(k2.down, src[s].epoch)
    BY <2>2 DEF Herald
  <2>4. CASE slot'.notice = slot.notice /\ UNCHANGED conn
    BY <2>2, <2>4
  <2>5. CASE ~slot'.notice.changed
    BY <2>3, <2>5 DEF Herald
  <2>6. CASE slot'.notice.epoch = slot.epoch + 1
    <3>1. k.down \in Seq(Messages) /\ DownInTime(k.down, slot.epoch)
      BY <2>1 DEF TypeOK, ConnStates, Timely, StreamsInTime
    <3>2. ASSUME NEW j \in 1..Len(k.down), k.down[j].op # "close"
          PROVE  k.down[j].notice.epoch < slot.epoch + 1
      <4>1. k.down[j] \in Messages /\ k.down[j].notice.epoch <= slot.epoch
        BY <3>1, <3>2 DEF DownInTime
      <4>2. k.down[j].notice.epoch \in Nat
        BY <3>2, <4>1 DEF Messages, Notice, Epochs
      <4>3. slot.epoch \in Nat
        BY <2>1
      <4> HIDE DEF k
      <4> QED
        BY <4>1, <4>2, <4>3
    <3>3. src[s].epoch < slot.epoch + 1
      BY <2>1
    <3>4. LastOf(k2.down, src[s].epoch, slot'.notice)
      BY <2>2, <2>6, <3>2, <3>3 DEF LastOf, Before
    <3> QED
      BY <2>3, <3>4 DEF Herald
  <2> QED
    BY <1>1, <2>4, <2>5, <2>6
<1> QED
  BY <1>1, <1>2 DEF Heralded

LEMMA StreamHerald ==
    ASSUME TypeOK, Heralded, TypeOK', NEW c \in Conns, Stream(c) \/ Break(c) PROVE Heralded'
<1>1. /\ UNCHANGED src /\ slot'.notice = slot.notice
      /\ \A d \in Conns \ {c} : conn'[d] = conn[d]
      /\ Sends(c) \/ Leaves(c) \/ Takes(c) \/ Breaks(c)
  BY StreamShape
<1>2. conn[c] \in ConnStates /\ conn'[c] \in ConnStates /\ slot.notice \in Notice
  BY DEF TypeOK, SlotStates
<1>3. ASSUME NEW e \in Nat, Herald(conn[c], slot.notice, e)
      PROVE  Herald(conn'[c], slot.notice, e)
  <2>1. CASE conn'[c].down = <<>> /\ (conn'[c].unread => conn[c].unread)
    BY <1>3, <2>1, HeraldEmpty
  <2>2. CASE Sends(c)
    <3> DEFINE m == [op |-> "state", notice |-> slot.notice]
    <3>1. conn'[c].down = <<>> \/ conn'[c].down = Append(conn[c].down, m)
      BY <2>2 DEF Sends, Say
    <3>2. conn[c].unread /\ ~conn'[c].unread /\ m.op = "state" /\ m.notice = slot.notice
      BY <2>2 DEF Sends
    <3> HIDE DEF m
    <3> QED
      BY <1>2, <1>3, <2>1, <3>1, <3>2, HeraldSent
  <2>3. CASE Leaves(c)
    <3>1. CASE conn'[c].down = <<>>
      BY <2>1, <2>3, <3>1 DEF Leaves
    <3>2. ASSUME NEW why, conn'[c].down = Append(conn[c].down, [op |-> "close", why |-> why])
          PROVE  Herald(conn'[c], slot.notice, e)
      <4>1. [op |-> "close", why |-> why].op = "close" /\ ~conn'[c].unread
        BY <2>3 DEF Leaves
      <4> QED
        BY <1>2, <1>3, <3>2, <4>1, HeraldClosed
    <3> QED
      BY <2>3, <3>1, <3>2 DEF Leaves
  <2>4. CASE Takes(c)
    BY <1>3, <2>4, HeraldSame DEF Takes
  <2>5. CASE Breaks(c)
    BY <2>1, <2>5 DEF Breaks
  <2> QED
    BY <1>1, <2>2, <2>3, <2>4, <2>5
<1>4. ASSUME NEW s \in Sources, src[s].conn # None
      PROVE  Herald(conn'[src[s].conn], slot.notice, src[s].epoch)
  <2>1. src[s].conn \in Conns /\ src[s].epoch \in Nat
    BY <1>4 DEF TypeOK, SourceStates, Epochs
  <2>2. Herald(conn[src[s].conn], slot.notice, src[s].epoch)
    BY <1>4 DEF Heralded
  <2> QED
    BY <1>1, <1>3, <2>1, <2>2
<1> QED
  BY <1>1, <1>4 DEF Heralded

(* One source changes, and no stream of another one.                       *)
LEMMA OneHerald ==
    ASSUME TypeOK, Own, Heralded, NEW s \in Sources, NEW x, src' = [src EXCEPT ![s] = x],
           slot'.notice = slot.notice, Apart(s), x.conn \in {None, src[s].conn},
           x.conn # None => Herald(conn'[x.conn], slot.notice, x.epoch)
    PROVE  Heralded'
<1>1. src'[s] = x /\ \A t \in Sources \ {s} : src'[t] = src[t]
  BY DEF TypeOK
<1>2. ASSUME NEW t \in Sources \ {s}, src[t].conn # None
      PROVE  Herald(conn'[src[t].conn], slot.notice, src[t].epoch)
  <2>1. src[t].conn \in Conns /\ src[t].conn # src[s].conn
    BY <1>2 DEF TypeOK, SourceStates, Own
  <2>2. conn'[src[t].conn] = conn[src[t].conn]
    BY <2>1 DEF Apart
  <2> QED
    BY <1>2, <2>2 DEF Heralded
<1> QED
  BY <1>1, <1>2 DEF Heralded

LEMMA SourceHerald ==
    ASSUME TypeOK, Shape, Timely, Own, Heralded, TypeOK', NEW s \in Sources, Source(s) PROVE Heralded'
<1>1. conn \in [Conns -> ConnStates] /\ conn' \in [Conns -> ConnStates] /\ slot.notice \in Notice
      /\ src[s] \in SourceStates
  BY DEF TypeOK, SlotStates
<1>2. CASE Connect(s)
  <2>1. PICK d \in Conns : Opens(s, d)
    BY <1>2, ConnectShape
  <2>2. slot'.notice = slot.notice
    BY <1>2, ConnectShape
  <2> DEFINE x == [src[s] EXCEPT !.at = "greeting", !.conn = d]
  <2>3. x.conn = d /\ src'[s] = x /\ \A t \in Sources \ {s} : src'[t] = src[t]
    BY <1>1, <2>1 DEF Opens, TypeOK, SourceStates
  <2> HIDE DEF x
  <2>4. \A e : Herald(conn'[d], slot.notice, e)
    <3> DEFINE m == [op |-> "welcome", notice |-> Notify(FALSE, Collecting, slot.epoch)]
    <3>1. conn'[d] = [Free EXCEPT !.hub = TRUE, !.bridge = TRUE, !.down = <<m>>]
      BY <2>1 DEF Opens
    <3>2. ~Tells(m)
      BY DEF Tells, Notify
    <3> HIDE DEF m
    <3>3. conn'[d].down = <<m>> /\ ~conn'[d].unread
      BY <3>1 DEF Free
    <3> QED
      BY <3>2, <3>3 DEF Herald, InTurn
  <2>5. ASSUME NEW t \in Sources \ {s}, src[t].conn # None
        PROVE  Herald(conn'[src[t].conn], slot.notice, src[t].epoch)
    <3>1. src[t].conn \in Conns \ {d}
      BY <2>1, <2>5 DEF Opens, TypeOK, SourceStates
    <3>2. Herald(conn[src[t].conn], slot.notice, src[t].epoch)
      BY <2>5 DEF Heralded
    <3>3. conn'[src[t].conn].down = conn[src[t].conn].down /\ conn'[src[t].conn].unread = conn[src[t].conn].unread
      BY <2>1, <3>1 DEF Opens, Quiet
    <3> QED
      BY <3>2, <3>3, HeraldSame
  <2> QED
    BY <2>2, <2>3, <2>4, <2>5 DEF Heralded
<1>3. CASE ConnectRefused(s)
  BY <1>3 DEF ConnectRefused, hubVars, Heralded
<1>4. ASSUME NEW y, src' = [src EXCEPT ![s] = y], y.conn = src[s].conn, y.epoch = Heads(s).notice.epoch,
             UNCHANGED slot, src[s].conn \in Conns, Hearing(src[s].conn), Apart(s), Heads(s).op # "close"
      PROVE  Heralded'
  <2> DEFINE c == src[s].conn
  <2>1. Herald(conn[c], slot.notice, src[s].epoch)
    BY <1>4, BridgeAssumption DEF Heralded
  <2>2. Herald(conn'[c], slot.notice, y.epoch)
    BY <1>1, <1>4, <2>1, HeraldHeard DEF Hearing, Heads
  <2> QED
    BY <1>4, <2>2, OneHerald
<1>5. CASE OnWelcome(s)
  <2>1. Heads(s).op = "welcome" /\ UNCHANGED slot /\ src[s].conn \in Conns /\ Hearing(src[s].conn) /\ Apart(s)
    BY <1>5, WelcomeShape
  <2>2. PICK y : src' = [src EXCEPT ![s] = y] /\ y.conn = src[s].conn /\ y.epoch = Heads(s).notice.epoch
    BY <1>5, WelcomeShape
  <2> QED
    BY <1>4, <2>1, <2>2
<1>6. CASE OnState(s)
  <2>1. Heads(s).op = "state" /\ UNCHANGED slot /\ src[s].conn \in Conns /\ Hearing(src[s].conn) /\ Apart(s)
    BY <1>6, ToldShape
  <2>2. PICK y : src' = [src EXCEPT ![s] = y] /\ y.conn = src[s].conn /\ y.epoch = Heads(s).notice.epoch
    BY <1>6, ToldShape
  <2> QED
    BY <1>4, <2>1, <2>2
<1>7. CASE OnClose(s) \/ OnLost(s) \/ OnStop(s)
  <2>1. UNCHANGED slot /\ Apart(s) /\ \E x : src' = [src EXCEPT ![s] = x] /\ Blank(x)
    BY <1>7, EndShape
  <2> QED
    BY <2>1, OneHerald DEF Blank
<1>8. CASE OnConfirmed(s) \/ OnSlotFree(s)
  <2>1. PICK y \in SourceStates :
          src' = [src EXCEPT ![s] = y] /\ y.conn = src[s].conn /\ y.epoch = src[s].epoch
    BY <1>8, GoOnShape
  <2>2. UNCHANGED <<slot, conn>>
    BY <1>8, GoOnShape
  <2> QED
    BY <2>1, <2>2, OneHerald DEF Heralded, Apart
<1>9. CASE Send(s)
  <2> DEFINE x == [src[s] EXCEPT !.out = None]
             c == src[s].conn
  <2>1. src' = [src EXCEPT ![s] = x] /\ UNCHANGED slot /\ Sending(s, c) /\ Apart(s) /\ c \in Conns
    BY <1>9, SendShape
  <2>2. x.conn = c /\ x.epoch = src[s].epoch
    BY <1>1 DEF SourceStates
  <2>3. Herald(conn[c], slot.notice, src[s].epoch)
    BY <2>1, BridgeAssumption DEF Heralded
  <2>4. Herald(conn'[c], slot.notice, src[s].epoch)
    BY <2>1, <2>3, HeraldSame DEF Sending
  <2> HIDE DEF x, c
  <2> QED
    BY <2>1, <2>2, <2>4, OneHerald DEF c
<1> QED
  BY <1>2, <1>3, <1>5, <1>6, <1>7, <1>8, <1>9 DEF Source, Incoming

(* Sources whose streams and epochs a step leaves alone.                   *)
LEMMA SameHerald ==
    ASSUME Heralded, UNCHANGED <<slot, conn>>,
           \A s \in Sources : src'[s].conn = None
                              \/ (src'[s].conn = src[s].conn /\ src'[s].epoch = src[s].epoch)
    PROVE  Heralded'
BY DEF Heralded

LEMMA StepHeralded ==
    ASSUME Sound, Sound', Own, Heralded, [Next]_vars PROVE Heralded'
<1>1. TypeOK /\ Shape /\ Timely /\ TypeOK'
  BY DEF Sound
<1>2. CASE Collection \/ Registry
  BY <1>1, <1>2, HubHerald
<1>3. ASSUME NEW c \in Conns, Stream(c) \/ Break(c) PROVE Heralded'
  BY <1>1, <1>3, StreamHerald
<1>4. ASSUME NEW p \in Pollers, Poller(p) PROVE Heralded'
  <2>1. UNCHANGED <<slot, conn>>
    BY <1>4 DEF Poller, QueryBegins, QueryEnds, PollerStops, hubVars
  <2>2. CASE QueryBegins(p) \/ PollerStops(p)
    BY <2>1, <2>2, SameHerald DEF QueryBegins, PollerStops
  <2>3. CASE QueryEnds(p)
    <3>1. ASSUME NEW s \in Sources
          PROVE  src'[s].conn = src[s].conn /\ src'[s].epoch = src[s].epoch
      <4>1. src[s] \in SourceStates
        BY <1>1 DEF TypeOK
      <4>2. src'[s] = src[s] \/ \E o : src'[s] = [src[s] EXCEPT !.out = o]
        BY <2>3 DEF QueryEnds
      <4> QED
        BY <4>1, <4>2 DEF SourceStates
    <3> QED
      BY <2>1, <3>1, SameHerald
  <2> QED
    BY <1>4, <2>2, <2>3 DEF Poller
<1>5. ASSUME NEW s \in Sources, Source(s) PROVE Heralded'
  BY <1>1, <1>5, SourceHerald
<1>6. CASE Supervisor
  <2>1. CASE TimerFires \/ FetchFails
    BY <2>1, SameHerald DEF TimerFires, FetchFails, hubVars
  <2>2. CASE FetchBegins
    <3>1. UNCHANGED <<slot, conn>>
      BY <2>2 DEF FetchBegins, hubVars
    <3> QED
      BY <1>1, <2>2, <3>1, BegunShape, SameHerald DEF Kept
  <2>3. CASE FetchApplied
    <3>1. UNCHANGED hubVars /\ UNCHANGED conn
      BY <2>3, Zenon DEF FetchApplied
    <3>2. UNCHANGED <<slot, conn>>
      BY <3>1 DEF hubVars
    <3> QED
      BY <1>1, <2>3, <3>2, AppliedShape, SameHerald DEF Kept, Blank
  <2> QED
    BY <1>6, <2>1, <2>2, <2>3 DEF Supervisor
<1>7. CASE UNCHANGED vars
  BY <1>7, SameHerald DEF vars
<1> QED
  BY <1>2, <1>3, <1>4, <1>5, <1>6, <1>7 DEF Next

(* News that was on its way still is.                                      *)
Grows == \A q : Among(saves, q) => Among(saves', q)
Spoken ==
    slot'.reg # None =>
        /\ slot'.reg = slot.reg /\ slot.reg \in Conns
        /\ conn'[slot.reg].bridge =>
             /\ conn[slot.reg].bridge
             /\ Ahead(conn[slot.reg], slot.notice) => Ahead(conn'[slot.reg], slot'.notice)

LEMMA NewsStay ==
    ASSUME TypeOK, News, UNCHANGED <<src, fetch>>, Grows, Spoken
    PROVE  News'
<1>1. ASSUME NEW s \in Sources PROVE NewsTo(src[s], slot', conn', fetch, saves')
  BY DEF News, NewsTo, Informed, Present, Grows, Spoken
<1> QED
  BY <1>1 DEF News

(* Nothing that is read or on the way is of an epoch that has just begun.  *)
LEMMA OursTurned ==
    ASSUME TypeOK, Timely, UNCHANGED src, slot'.epoch = slot.epoch + 1, slot'.held = None,
           slot'.reg \in {None, slot.reg}, \A c \in Conns : Quiet(c)
    PROVE  ReadOurs' /\ SentOurs' /\ HeldOurs'
<1>1. slot.epoch \in Nat
  BY DEF TypeOK, SlotStates, Epochs
<1>2. ASSUME NEW s \in Sources PROVE src[s].epoch # slot.epoch + 1
  <2>1. src[s].epoch \in Nat /\ src[s].epoch <= slot.epoch
    BY DEF TypeOK, SourceStates, Epochs, Timely, SourcesInTime, InTime
  <2> QED
    BY <1>1, <2>1
<1>3. ReadOurs'
  BY <1>2 DEF ReadOurs, ReadsOurs
<1>4. ASSUME slot'.reg # None, NEW i \in 1..Len(conn'[slot'.reg].up)
      PROVE  conn'[slot'.reg].up[i].epoch # slot.epoch + 1
  <2> DEFINE q == conn[slot.reg].up
  <2>1. slot.reg \in Conns /\ slot'.reg = slot.reg /\ conn'[slot'.reg].up = q
    BY <1>4 DEF TypeOK, SlotStates, Quiet
  <2>2. q \in Seq(Values) /\ UpInTime(q, slot.epoch)
    BY <2>1 DEF TypeOK, ConnStates, Timely, StreamsInTime
  <2> HIDE DEF q
  <2>3. i \in 1..Len(q)
    BY <1>4, <2>1
  <2>4. q[i] \in Values /\ q[i].epoch <= q[i].reading.era /\ q[i].reading.era <= slot.epoch
    BY <2>2, <2>3 DEF UpInTime
  <2>5. q[i].epoch # slot.epoch + 1
    BY <1>1, <2>4 DEF Values, Readings, Epochs
  <2> QED
    BY <2>1, <2>5
<1>5. SentOurs'
  BY <1>4 DEF SentOurs, AllAmong
<1>6. HeldOurs'
  BY DEF HeldOurs
<1> QED
  BY <1>3, <1>5, <1>6

LEMMA RestStay ==
    ASSUME TypeOK, ReadOurs, UNCHANGED src, Grows, slot'.epoch = slot.epoch, Spoken,
           slot'.reg # None => AllAmong(conn'[slot'.reg].up, slot.epoch, saves),
           slot'.held # None => Among(saves, slot'.held.sql)
    PROVE  ReadOurs' /\ SentOurs' /\ HeldOurs'
<1>1. ASSUME NEW s \in Sources PROVE ReadsOurs(src[s], slot', conn', saves')
  BY DEF ReadOurs, ReadsOurs, Present, Grows, Spoken
<1>2. ReadOurs'
  BY <1>1 DEF ReadOurs
<1>3. SentOurs'
  BY DEF SentOurs, AllAmong, Grows
<1>4. HeldOurs'
  BY DEF HeldOurs, Grows
<1> QED
  BY <1>2, <1>3, <1>4

(* The Hub's turns: a notice that nobody has read is not passed over, and  *)
(* new settings are announced.                                             *)
LEMMA HubOurs ==
    ASSUME TypeOK, Timely, RegOpen, AllOurs, Collection \/ Registry, ~folded' /\ ~skipped'
    PROVE  AllOurs'
<1>1. /\ UNCHANGED <<src, fetch>> /\ slot'.reg \in {None, slot.reg}
      /\ \A c \in Conns : Quiet(c)
  BY HubQuiet
<1>2. slot \in SlotStates /\ conn \in [Conns -> ConnStates]
      /\ (slot.reg # None => slot.reg \in Conns)
  BY DEF TypeOK, SlotStates
<1>3. News /\ ReadOurs /\ SentOurs /\ HeldOurs
  BY DEF AllOurs
<1>4. ASSUME ~slot'.notice.changed, ~Folds(FALSE) PROVE Spoken
  BY <1>1, <1>2, <1>4 DEF Spoken, Quiet, Ahead, Folds
<1>5. ASSUME UNCHANGED <<slot, conn>> PROVE Spoken
  BY <1>2, <1>5 DEF Spoken
<1>6. ASSUME UNCHANGED <<slot, conn>>, Grows PROVE AllOurs'
  <2>1. Spoken /\ News'
    BY <1>1, <1>3, <1>5, <1>6, NewsStay
  <2>2. ReadOurs' /\ SentOurs' /\ HeldOurs'
    BY <1>1, <1>3, <1>6, <2>1, RestStay DEF SentOurs, HeldOurs
  <2> QED
    BY <2>1, <2>2 DEF AllOurs
<1>7. UNCHANGED saves => Grows
  BY DEF Grows
<1>8. CASE CollectionStopped
  <2>1. ~Folds(FALSE) /\ Grows
    <3>1. folded' = (folded \/ Folds(FALSE)) /\ UNCHANGED saves
      BY <1>8 DEF CollectionStopped
    <3> QED
      BY <1>7, <3>1, Zenon
  <2>2. slot'.epoch = slot.epoch + 1 /\ slot'.held = None /\ ~slot'.notice.changed
    BY <1>8, TurnShapes DEF Notify
  <2>3. Spoken
    BY <1>4, <2>1, <2>2
  <2> QED
    BY <1>1, <1>3, <2>1, <2>2, <2>3, NewsStay, OursTurned DEF AllOurs
<1>9. CASE CollectionStarting
  <2>1. slot'.epoch = slot.epoch + 1 /\ slot'.held = None /\ slot'.notice = slot.notice
        /\ slot'.reg = slot.reg
    BY <1>9, TurnShapes
  <2>2. UNCHANGED <<conn, saves>>
    BY <1>9 DEF CollectionStarting
  <2>3. Spoken
    BY <1>2, <2>1, <2>2 DEF Spoken
  <2> QED
    BY <1>1, <1>3, <1>7, <2>1, <2>2, <2>3, NewsStay, OursTurned DEF AllOurs
<1>10. CASE CollectionStarted
  <2>1. ~Folds(FALSE) /\ Grows /\ UNCHANGED saves
    <3>1. folded' = (folded \/ Folds(FALSE)) /\ UNCHANGED saves
      BY <1>10 DEF CollectionStarted
    <3> QED
      BY <1>7, <3>1, Zenon
  <2>2. slot'.epoch = slot.epoch /\ slot'.held = slot.held /\ slot'.reg = slot.reg
        /\ ~slot'.notice.changed
    BY <1>10, TurnShapes DEF Notify
  <2>3. Spoken
    BY <1>4, <2>1, <2>2
  <2>4. slot'.reg # None => AllAmong(conn'[slot'.reg].up, slot.epoch, saves)
    BY <1>1, <1>2, <1>3, <2>2 DEF SentOurs, Quiet
  <2>5. ReadOurs' /\ SentOurs' /\ HeldOurs'
    BY <1>1, <1>3, <2>1, <2>2, <2>3, <2>4, RestStay DEF HeldOurs
  <2> QED
    BY <1>1, <1>3, <2>1, <2>3, <2>5, NewsStay DEF AllOurs
<1>11. CASE CollectionFaulted
  <2>1. UNCHANGED <<slot, conn, saves>>
    BY <1>11 DEF CollectionFaulted
  <2> QED
    BY <1>6, <1>7, <2>1
<1>12. CASE Save
  <2>1. PICK new \in Settings : saves' = Append(saves, new)
    BY <1>12 DEF Save
  <2>2. UNCHANGED <<slot, conn>>
    BY <1>12 DEF Save
  <2>3. ASSUME NEW i \in DOMAIN saves PROVE i \in DOMAIN saves' /\ saves'[i] = saves[i]
    BY <2>1, <2>3 DEF TypeOK
  <2>4. Grows
    BY <2>3 DEF Grows, Among
  <2> QED
    BY <1>6, <2>2, <2>4
<1>13. CASE Commit
  <2>1. CASE CommitIdle
    BY <1>6, <2>1 DEF CommitIdle, Grows
  <2>2. CASE CommitTurns
    <3>1. ReadOurs' /\ SentOurs' /\ HeldOurs'
      BY <1>1, <2>2, OursTurned DEF CommitTurns
    <3>2. CASE slot'.reg = None
      <4>1. ASSUME NEW s \in Sources PROVE NewsTo(src'[s], slot', conn', fetch', saves')
        BY <3>2 DEF NewsTo, Present
      <4> QED
        BY <3>1, <4>1 DEF AllOurs, News
    <3>3. CASE slot'.reg # None /\ slot'.notice.changed /\ slot'.reg = slot.reg
      <4>1. conn'[slot.reg].unread
        BY <1>2, <2>2, <3>3, UnreadMarks DEF CommitTurns, RegOpen
      <4>2. ASSUME NEW s \in Sources PROVE NewsTo(src'[s], slot', conn', fetch', saves')
        BY <3>3, <4>1 DEF NewsTo, Present, Informed, Ahead
      <4> QED
        BY <3>1, <4>2 DEF AllOurs, News
    <3> QED
      BY <2>2, <3>2, <3>3 DEF CommitTurns
  <2> QED
    BY <1>13, <2>1, <2>2, CommitShape
<1> QED
  BY <1>8, <1>9, <1>10, <1>11, <1>12, <1>13 DEF Collection, Registry

(* What comes in on the registered stream, and what leaves it.             *)
LEMMA AmongTail ==
    ASSUME NEW q \in Seq(Values), NEW e, NEW ss, q # <<>>, AllAmong(q, e, ss)
    PROVE  AllAmong(Tail(q), e, ss) /\ (Head(q).epoch = e => Among(ss, Head(q).reading.sql))
<1>1. Len(q) \in Nat \ {0} /\ Head(q) = q[1] /\ Len(Tail(q)) = Len(q) - 1
      /\ \A i \in 1..(Len(q) - 1) : Tail(q)[i] = q[i + 1]
  OBVIOUS
<1> QED
  BY <1>1 DEF AllAmong

LEMMA AmongAppend ==
    ASSUME NEW q \in Seq(Values), NEW e, NEW ss, NEW v, AllAmong(q, e, ss),
           v.epoch = e => Among(ss, v.reading.sql)
    PROVE  AllAmong(Append(q, v), e, ss)
<1>1. Len(q) \in Nat /\ Len(Append(q, v)) = Len(q) + 1 /\ Append(q, v)[Len(q) + 1] = v
      /\ \A i \in 1..Len(q) : Append(q, v)[i] = q[i]
  OBVIOUS
<1>2. ASSUME NEW i \in 1..Len(Append(q, v)), Append(q, v)[i].epoch = e
      PROVE  Among(ss, Append(q, v)[i].reading.sql)
  <2>1. CASE i = Len(q) + 1
    BY <1>1, <1>2, <2>1
  <2>2. CASE i # Len(q) + 1
    <3>1. i \in 1..Len(q) /\ Append(q, v)[i] = q[i]
      BY <1>1, <2>2
    <3> QED
      BY <1>2, <3>1 DEF AllAmong
  <2> QED
    BY <2>1, <2>2
<1> QED
  BY <1>2 DEF AllAmong

LEMMA AheadSent ==
    ASSUME NEW k \in ConnStates, NEW k2, NEW n, NEW m, m.op = "state", m.notice = n,
           k2.down = Append(k.down, m), Ahead(k, n)
    PROVE  Ahead(k2, n)
<1>1. k.down \in Seq(Messages) /\ Len(k.down) \in Nat
  BY DEF ConnStates
<1>2. Len(k2.down) = Len(k.down) + 1 /\ k2.down[Len(k.down) + 1] = m
      /\ \A i \in 1..Len(k.down) : k2.down[i] = k.down[i]
  BY <1>1
<1>3. CASE k.unread /\ n.changed
  <2>1. Tells(k2.down[Len(k.down) + 1]) /\ Len(k.down) + 1 \in 1..Len(k2.down)
    BY <1>1, <1>2, <1>3 DEF Tells
  <2> QED
    BY <2>1 DEF Ahead
<1>4. CASE \E i \in 1..Len(k.down) : Tells(k.down[i])
  <2>1. PICK i \in 1..Len(k.down) : Tells(k.down[i])
    BY <1>4
  <2>2. Tells(k2.down[i]) /\ i \in 1..Len(k2.down)
    BY <1>1, <1>2, <2>1
  <2> QED
    BY <2>2 DEF Ahead
<1> QED
  BY <1>3, <1>4 DEF Ahead

LEMMA AheadHeard ==
    ASSUME NEW k \in ConnStates, NEW k2, NEW n, k.down # <<>>, k2.down = Tail(k.down),
           k2.unread = k.unread, ~Tells(Head(k.down)), Ahead(k, n)
    PROVE  Ahead(k2, n)
<1>1. k.down \in Seq(Messages) /\ Len(k.down) \in Nat \ {0} /\ Head(k.down) = k.down[1]
  BY DEF ConnStates
<1>2. Len(k2.down) = Len(k.down) - 1 /\ \A i \in 1..(Len(k.down) - 1) : k2.down[i] = k.down[i + 1]
  BY <1>1
<1>3. CASE k.unread /\ n.changed
  BY <1>3 DEF Ahead
<1>4. CASE \E i \in 1..Len(k.down) : Tells(k.down[i])
  <2>1. PICK i \in 1..Len(k.down) : Tells(k.down[i])
    BY <1>4
  <2>2. i # 1
    BY <1>1, <2>1
  <2>3. i - 1 \in 1..Len(k2.down) /\ k2.down[i - 1] = k.down[i]
    BY <1>1, <1>2, <2>1, <2>2
  <2> QED
    BY <2>1, <2>3 DEF Ahead
<1> QED
  BY <1>3, <1>4 DEF Ahead

LEMMA StreamOurs ==
    ASSUME TypeOK, RegOpen, AllOurs, NEW c \in Conns, Stream(c) \/ Break(c)
    PROVE  AllOurs'
<1>1. /\ UNCHANGED <<saves, src, fetch>> /\ slot'.epoch = slot.epoch /\ slot'.notice = slot.notice
      /\ \A d \in Conns \ {c} : conn'[d] = conn[d]
      /\ Sends(c) \/ Leaves(c) \/ Takes(c) \/ Breaks(c)
  BY StreamShape
<1>2. conn[c] \in ConnStates /\ (slot.reg # None => slot.reg \in Conns)
  BY DEF TypeOK, SlotStates
<1>3. News /\ ReadOurs /\ SentOurs /\ HeldOurs /\ Grows
  BY <1>1 DEF AllOurs, Grows
<1>4. ASSUME Spoken, slot'.reg # None => AllAmong(conn'[slot'.reg].up, slot.epoch, saves),
             slot'.held # None => Among(saves, slot'.held.sql)
      PROVE  AllOurs'
  <2>1. News'
    BY <1>1, <1>3, <1>4, NewsStay
  <2>2. ReadOurs' /\ SentOurs' /\ HeldOurs'
    BY <1>1, <1>3, <1>4, RestStay
  <2> QED
    BY <2>1, <2>2 DEF AllOurs
<1>5. CASE slot'.reg # c /\ slot'.reg \in {None, slot.reg} /\ slot'.held = slot.held
  BY <1>1, <1>2, <1>3, <1>4, <1>5 DEF Spoken, SentOurs, HeldOurs
<1>6. CASE Leaves(c)
  BY <1>5, <1>6, BridgeAssumption DEF Leaves, OffRegister
<1>7. CASE Sends(c)
  <2>1. slot' = slot
    BY <1>7 DEF Sends
  <2>2. CASE slot.reg = c
    <3> DEFINE m == [op |-> "state", notice |-> slot.notice]
    <3>1. conn[c].bridge => conn'[c].down = Append(conn[c].down, m)
      BY <1>7 DEF Sends, Say
    <3>2. conn[c].bridge /\ Ahead(conn[c], slot.notice) => Ahead(conn'[c], slot.notice)
      <4>1. m.op = "state" /\ m.notice = slot.notice
        OBVIOUS
      <4> HIDE DEF m
      <4> QED
        BY <1>2, <3>1, <4>1, AheadSent
    <3>3. Spoken
      BY <1>7, <2>1, <2>2, <3>2 DEF Spoken, Sends
    <3> QED
      BY <1>3, <1>4, <1>7, <2>1, <2>2, <3>3 DEF Sends, SentOurs, HeldOurs
  <2>3. CASE slot.reg # c
    BY <1>5, <2>1, <2>3
  <2> QED
    BY <2>2, <2>3
<1>8. CASE Takes(c)
  <2>1. /\ slot.reg = c /\ slot'.reg = c /\ conn[c].up # <<>> /\ conn'[c].up = Tail(conn[c].up)
        /\ conn'[c].bridge = conn[c].bridge /\ conn'[c].unread = conn[c].unread
        /\ conn'[c].down = conn[c].down
        /\ \/ slot'.held = slot.held
           \/ Head(conn[c].up).epoch = slot.epoch /\ slot'.held.sql = Head(conn[c].up).reading.sql
    BY <1>8 DEF Takes
  <2>2. Spoken
    BY <1>1, <2>1 DEF Spoken, Ahead
  <2>3. AllAmong(Tail(conn[c].up), slot.epoch, saves)
        /\ (Head(conn[c].up).epoch = slot.epoch => Among(saves, Head(conn[c].up).reading.sql))
    <3>1. AllAmong(conn[c].up, slot.epoch, saves)
      BY <1>3, <2>1, BridgeAssumption DEF SentOurs
    <3>2. conn[c].up \in Seq(Values)
      BY <1>2 DEF ConnStates
    <3> QED
      BY <2>1, <3>1, <3>2, AmongTail
  <2> QED
    BY <1>3, <1>4, <2>1, <2>2, <2>3 DEF HeldOurs
<1>9. CASE Breaks(c)
  <2>1. slot' = slot
    BY <1>9 DEF Breaks
  <2>2. CASE slot.reg = c
    <3>1. Spoken
      BY <1>9, <2>1, <2>2 DEF Spoken, Breaks
    <3>2. AllAmong(conn'[c].up, slot.epoch, saves)
      <4>1. AllAmong(conn[c].up, slot.epoch, saves)
        BY <1>3, <2>2, BridgeAssumption DEF SentOurs
      <4>2. AllAmong(<<>>, slot.epoch, saves)
        BY DEF AllAmong
      <4> QED
        BY <1>9, <4>1, <4>2 DEF Breaks
    <3> QED
      BY <1>3, <1>4, <2>1, <2>2, <3>1, <3>2 DEF HeldOurs
  <2>3. CASE slot.reg # c
    BY <1>5, <2>1, <2>3
  <2> QED
    BY <2>2, <2>3
<1> QED
  BY <1>1, <1>6, <1>7, <1>8, <1>9

(* Who knows of the present epoch has heard of every change.               *)
LEMMA HeardAll ==
    ASSUME NEW k \in ConnStates, NEW n \in Notice, NEW e \in Nat, Herald(k, n, e),
           n.epoch <= e, DownInTime(k.down, e)
    PROVE  ~Ahead(k, n)
<1>1. ASSUME NEW i \in 1..Len(k.down), Tells(k.down[i]) PROVE FALSE
  <2>1. k.down[i] \in Messages /\ k.down[i].op # "close"
    BY <1>1 DEF ConnStates, Tells
  <2>2. k.down[i].notice.epoch \in Nat
    BY <2>1 DEF Messages, Notice, Epochs
  <2>3. e < k.down[i].notice.epoch /\ k.down[i].notice.epoch <= e
    BY <1>1, <2>1 DEF Herald, InTurn, DownInTime
  <2> QED
    BY <2>2, <2>3
<1>2. ASSUME k.unread, n.changed PROVE FALSE
  <2>1. e < n.epoch /\ n.epoch \in Nat
    BY <1>2 DEF Herald, LastOf, Notice, Epochs
  <2> QED
    BY <2>1
<1> QED
  BY <1>1, <1>2 DEF Ahead

(* One source changes, and no stream of another one.                       *)
LEMMA OneOurs ==
    ASSUME TypeOK, Own, AllOurs, NEW s \in Sources, NEW x, src' = [src EXCEPT ![s] = x],
           UNCHANGED <<saves, slot, fetch>>, Apart(s),
           NewsTo(x, slot, conn', fetch, saves), ReadsOurs(x, slot, conn', saves),
           slot.reg # None /\ slot.reg = src[s].conn => AllAmong(conn'[slot.reg].up, slot.epoch, saves)
    PROVE  AllOurs'
<1>1. src'[s] = x /\ \A t \in Sources \ {s} : src'[t] = src[t]
  BY DEF TypeOK
<1>2. ASSUME NEW t \in Sources \ {s}
      PROVE  NewsTo(src[t], slot, conn', fetch, saves) /\ ReadsOurs(src[t], slot, conn', saves)
  <2>1. NewsTo(src[t], slot, conn, fetch, saves) /\ ReadsOurs(src[t], slot, conn, saves)
    BY DEF AllOurs, News, ReadOurs
  <2>2. src[t].conn # None => conn'[src[t].conn] = conn[src[t].conn]
    <3>1. src[t].conn # None => src[t].conn \in Conns /\ src[t].conn # src[s].conn
      BY DEF TypeOK, SourceStates, Own
    <3> QED
      BY <3>1 DEF Apart
  <2> QED
    BY <2>1, <2>2 DEF NewsTo, ReadsOurs, Present
<1>3. News' /\ ReadOurs'
  BY <1>1, <1>2 DEF News, ReadOurs
<1>4. SentOurs'
  <2>1. slot.reg # None /\ slot.reg # src[s].conn => conn'[slot.reg] = conn[slot.reg]
    BY DEF TypeOK, SlotStates, Apart
  <2> QED
    BY <2>1 DEF AllOurs, SentOurs
<1>5. HeldOurs'
  BY DEF AllOurs, HeldOurs
<1> QED
  BY <1>3, <1>4, <1>5 DEF AllOurs

(* A source that begins to read in the present epoch, or goes on.          *)
LEMMA GoesOn ==
    ASSUME Sound', Heralded', NEW s \in Sources, src'[s].at = "open", ~src'[s].stop,
           src'[s].awaiting = "no", NewsTo(src'[s], slot', conn', fetch', saves')
    PROVE  ReadsOurs(src'[s], slot', conn', saves')
<1> SUFFICES ASSUME Present(src'[s], slot'.reg, conn'), src'[s].epoch = slot'.epoch
             PROVE  Among(saves', src'[s].sql)
  BY DEF ReadsOurs
<1> DEFINE x == src'[s]
           k == conn'[x.conn]
<1>1. Informed(x, k, slot'.notice, fetch', saves')
  BY DEF NewsTo
<1>2. x.conn \in Conns /\ k \in ConnStates /\ slot'.notice \in Notice /\ x.epoch \in Nat
  BY DEF Present, Sound, TypeOK, SourceStates, SlotStates, Epochs
<1>3. Herald(k, slot'.notice, x.epoch)
  BY DEF Heralded, Present
<1>4. slot'.notice.epoch <= x.epoch /\ DownInTime(k.down, x.epoch)
  BY <1>2 DEF Sound, Timely, NoticeInTime, StreamsInTime
<1>5. ~Ahead(k, slot'.notice)
  BY <1>2, <1>3, <1>4, HeardAll
<1> QED
  BY <1>1, <1>5 DEF Informed

LEMMA SourceOurs ==
    ASSUME Sound, Sound', Own, Heralded', AllOurs, NEW s \in Sources, Source(s)
    PROVE  AllOurs'
<1>1. TypeOK /\ Shape /\ Timely
  BY DEF Sound
<1>2. /\ src[s] \in SourceStates /\ Reads(src[s], poller)
      /\ NewsTo(src[s], slot, conn, fetch, saves) /\ ReadsOurs(src[s], slot, conn, saves)
  BY <1>1 DEF TypeOK, Own, AllOurs, News, ReadOurs
<1>3. slot.reg # None => slot.reg \in Conns /\ AllAmong(conn[slot.reg].up, slot.epoch, saves)
  BY <1>1 DEF TypeOK, SlotStates, AllOurs, SentOurs
<1>4. ASSUME NEW x, src' = [src EXCEPT ![s] = x], UNCHANGED <<saves, slot, fetch>>, Apart(s),
             NewsTo(x, slot, conn', fetch, saves), ReadsOurs(x, slot, conn', saves),
             src[s].conn \in Conns => conn'[src[s].conn].up \in {conn[src[s].conn].up, <<>>}
      PROVE  AllOurs'
  <2>1. AllAmong(<<>>, slot.epoch, saves)
    BY DEF AllAmong
  <2>2. slot.reg # None /\ slot.reg = src[s].conn => AllAmong(conn'[slot.reg].up, slot.epoch, saves)
    BY <1>3, <1>4, <2>1
  <2> QED
    BY <1>1, <1>4, <2>2, OneOurs
<1>5. CASE Connect(s)
  <2>1. PICK d \in Conns : Opens(s, d)
    BY <1>1, <1>5, ConnectShape
  <2>2. UNCHANGED <<saves, fetch>> /\ slot'.epoch = slot.epoch /\ slot'.notice = slot.notice
        /\ slot'.held = slot.held /\ src[s].at = "away"
    BY <1>1, <1>5, ConnectShape
  <2> DEFINE x == [src[s] EXCEPT !.at = "greeting", !.conn = d]
  <2>3. src'[s] = x /\ \A t \in Sources \ {s} : src'[t] = src[t]
    BY <1>1, <2>1 DEF Opens, TypeOK
  <2>4. x.at = "greeting" /\ x.poller = None /\ x.out = None
    BY <1>1, <1>2, <2>2 DEF SourceStates, Timely, SourcesInTime, InTime
  <2> HIDE DEF x
  <2>5. ASSUME NEW t \in Sources
        PROVE  NewsTo(src'[t], slot', conn', fetch', saves') /\ ReadsOurs(src'[t], slot', conn', saves')
    <3>1. CASE t = s
      BY <2>3, <2>4, <3>1 DEF NewsTo, ReadsOurs
    <3>2. CASE t # s
      <4>1. src'[t].conn # slot'.reg
        BY <2>1, <2>3, <3>2 DEF Opens
      <4> QED
        BY <4>1 DEF NewsTo, ReadsOurs, Present
    <3> QED
      BY <3>1, <3>2
  <2>6. conn'[slot'.reg].up = <<>>
    BY <2>1 DEF Opens, Free
  <2>7. News' /\ ReadOurs'
    BY <2>5 DEF News, ReadOurs
  <2>8. SentOurs' /\ HeldOurs'
    BY <2>2, <2>6 DEF SentOurs, AllAmong, HeldOurs, AllOurs
  <2> QED
    BY <2>7, <2>8 DEF AllOurs
<1>6. CASE ConnectRefused(s)
  <2>1. UNCHANGED <<saves, slot, conn, fetch, src>>
    BY <1>6 DEF ConnectRefused, hubVars
  <2>2. src' = [src EXCEPT ![s] = src[s]] /\ Apart(s)
    BY <1>1, <2>1 DEF TypeOK, Apart
  <2> QED
    BY <1>2, <1>4, <2>1, <2>2
<1>7. CASE OnWelcome(s)
  <2>1. UNCHANGED <<saves, slot, fetch>> /\ src[s].conn \in Conns /\ Hearing(src[s].conn) /\ Apart(s)
    BY <1>1, <1>7, WelcomeShape
  <2>2. PICK y : /\ src' = [src EXCEPT ![s] = y] /\ y.conn = src[s].conn /\ y.awaiting = "asked"
                 /\ y.poller = None /\ y.out = None
    BY <1>1, <1>7, WelcomeShape
  <2>3. NewsTo(y, slot, conn', fetch, saves) /\ ReadsOurs(y, slot, conn', saves)
    BY <2>2 DEF NewsTo, Informed, ReadsOurs
  <2> QED
    BY <1>4, <2>1, <2>2, <2>3 DEF Hearing
<1>8. CASE OnState(s)
  <2>1. UNCHANGED <<saves, slot, fetch>> /\ src[s].conn \in Conns /\ Hearing(src[s].conn) /\ Apart(s)
        /\ src[s].at = "open" /\ ~src[s].stop /\ Heads(s).op = "state"
    BY <1>1, <1>8, ToldShape
  <2>2. PICK y : /\ src' = [src EXCEPT ![s] = y] /\ y.conn = src[s].conn /\ y.sql = src[s].sql
                 /\ y.at = "open" /\ ~y.stop /\ y.epoch = Heads(s).notice.epoch
                 /\ y.awaiting = IF Heads(s).notice.changed THEN "asked" ELSE src[s].awaiting
                 /\ \/ y.awaiting = "no"
                    \/ y.poller = None /\ y.out = None
                    \/ y.poller = src[s].poller /\ y.out = src[s].out /\ y.epoch = src[s].epoch
    BY <1>1, <1>8, ToldShape
  <2>3. NewsTo(y, slot, conn', fetch, saves)
    <3>1. CASE Heads(s).notice.changed
      BY <2>2, <3>1 DEF NewsTo, Informed
    <3>2. CASE ~Heads(s).notice.changed
      <4> DEFINE k == conn[src[s].conn]
                 k2 == conn'[src[s].conn]
      <4>1. k \in ConnStates /\ k.down # <<>> /\ k2.down = Tail(k.down) /\ k2.unread = k.unread
            /\ k2.bridge = k.bridge
        BY <1>1, <2>1 DEF Hearing, TypeOK
      <4>2. ~Tells(Head(k.down))
        BY <3>2 DEF Tells, Heads
      <4> HIDE DEF k, k2
      <4>3. Ahead(k, slot.notice) => Ahead(k2, slot.notice)
        BY <4>1, <4>2, AheadHeard
      <4> QED
        BY <1>2, <2>1, <2>2, <3>2, <4>1, <4>3 DEF NewsTo, Informed, Present, k, k2
    <3> QED
      BY <3>1, <3>2
  <2>4. ReadsOurs(y, slot, conn', saves)
    <3>1. CASE y.awaiting = "no"
      <4>1. src'[s] = y
        BY <1>1, <2>2 DEF TypeOK
      <4>2. ReadsOurs(src'[s], slot', conn', saves')
        BY <2>1, <2>2, <2>3, <3>1, <4>1, GoesOn
      <4> QED
        BY <2>1, <4>1, <4>2
    <3>2. CASE y.poller = None /\ y.out = None
      BY <3>2 DEF ReadsOurs
    <3>3. CASE y.poller = src[s].poller /\ y.out = src[s].out /\ y.epoch = src[s].epoch
      BY <1>2, <2>1, <2>2, <3>3 DEF ReadsOurs, Present, Hearing
    <3> QED
      BY <2>2, <3>1, <3>2, <3>3
  <2> QED
    BY <1>4, <2>1, <2>2, <2>3, <2>4 DEF Hearing
<1>9. CASE OnClose(s) \/ OnLost(s) \/ OnStop(s)
  <2>1. /\ UNCHANGED <<saves, slot, fetch>> /\ Apart(s)
        /\ src[s].conn \in Conns => UNCHANGED conn \/ GivenUp(src[s].conn)
    BY <1>1, <1>9, EndShape
  <2>2. PICK x : src' = [src EXCEPT ![s] = x] /\ Blank(x)
    BY <1>1, <1>9, EndShape
  <2>3. NewsTo(x, slot, conn', fetch, saves) /\ ReadsOurs(x, slot, conn', saves)
    BY <2>2 DEF Blank, NewsTo, ReadsOurs, Present
  <2> QED
    BY <1>4, <2>1, <2>2, <2>3 DEF GivenUp
<1>10. CASE OnConfirmed(s) \/ OnSlotFree(s)
  <2>1. UNCHANGED <<saves, slot, conn, fetch>> /\ src[s].at = "open" /\ ~src[s].stop
        /\ src[s].awaiting \in {"confirmed", "no"}
    BY <1>1, <1>10, GoOnShape
  <2>2. PICK y \in SourceStates :
          /\ src' = [src EXCEPT ![s] = y] /\ y.conn = src[s].conn /\ y.at = "open" /\ ~y.stop
          /\ y.sql = src[s].sql /\ y.epoch = src[s].epoch /\ y.awaiting = "no"
    BY <1>1, <1>10, GoOnShape
  <2>3. src'[s] = y
    BY <1>1, <2>2 DEF TypeOK
  <2>4. NewsTo(y, slot, conn', fetch, saves)
    BY <1>2, <2>1, <2>2 DEF NewsTo, Informed, Present
  <2>5. ReadsOurs(src'[s], slot', conn', saves')
    BY <2>1, <2>2, <2>3, <2>4, GoesOn
  <2>6. Apart(s)
    BY <2>1 DEF Apart
  <2> QED
    BY <1>4, <2>1, <2>2, <2>3, <2>4, <2>5, <2>6
<1>11. CASE Send(s)
  <2> DEFINE c == src[s].conn
             v == [epoch |-> src[s].epoch, reading |-> src[s].out]
             x == [src[s] EXCEPT !.out = None]
  <2>1. /\ c \in Conns /\ Sending(s, c) /\ Apart(s) /\ src[s].out # None
        /\ src' = [src EXCEPT ![s] = x] /\ UNCHANGED <<saves, slot, fetch>>
    BY <1>1, <1>11, SendShape
  <2>2. x.conn = src[s].conn /\ x.at = src[s].at /\ x.stop = src[s].stop /\ x.awaiting = src[s].awaiting
        /\ x.sql = src[s].sql /\ x.poller = src[s].poller /\ x.epoch = src[s].epoch /\ x.out = None
    BY <1>2 DEF SourceStates
  <2>3. conn'[c].up = conn[c].up \/ conn'[c].up = Append(conn[c].up, v)
    BY <2>1 DEF Sending
  <2>4. v.epoch = src[s].epoch /\ v.reading.sql = src[s].sql
    BY <1>2, <2>1 DEF Reads
  <2>5. conn[c].up \in Seq(Values)
    BY <1>1, <2>1 DEF TypeOK, ConnStates
  <2> HIDE DEF x, v
  <2>6. NewsTo(x, slot, conn', fetch, saves) /\ ReadsOurs(x, slot, conn', saves)
    BY <1>2, <2>1, <2>2 DEF NewsTo, Informed, Ahead, ReadsOurs, Present, Sending
  <2>7. ASSUME slot.reg # None, slot.reg = c PROVE AllAmong(conn'[c].up, slot.epoch, saves)
    <3>1. AllAmong(conn[c].up, slot.epoch, saves)
      BY <1>3, <2>7
    <3>2. Present(src[s], slot.reg, conn)
      BY <2>1, <2>7 DEF Present, Sending
    <3>3. v.epoch = slot.epoch => Among(saves, v.reading.sql)
      BY <1>2, <2>1, <2>4, <3>2 DEF ReadsOurs
    <3> QED
      BY <2>3, <2>5, <3>1, <3>3, AmongAppend
  <2> HIDE DEF c
  <2>8. slot.reg # None /\ slot.reg = src[s].conn => AllAmong(conn'[slot.reg].up, slot.epoch, saves)
    BY <2>7 DEF c
  <2> QED
    BY <1>1, <2>1, <2>6, <2>8, OneOurs
<1> QED
  BY <1>5, <1>6, <1>7, <1>8, <1>9, <1>10, <1>11 DEF Source, Incoming

(* A query that ends leaves its reading with the source it was read for.   *)
LEMMA PollerOurs ==
    ASSUME TypeOK, AllOurs, NEW p \in Pollers, Poller(p) PROVE AllOurs'
<1>1. UNCHANGED <<saves, slot, conn, fetch>>
  BY DEF Poller, QueryBegins, QueryEnds, PollerStops, hubVars
<1>2. ASSUME NEW s \in Sources
      PROVE  /\ src'[s].conn = src[s].conn /\ src'[s].at = src[s].at /\ src'[s].stop = src[s].stop
             /\ src'[s].awaiting = src[s].awaiting /\ src'[s].sql = src[s].sql
             /\ src'[s].epoch = src[s].epoch /\ src'[s].poller = src[s].poller
             /\ src'[s].out = src[s].out \/ src[s].poller # None
  <2>1. CASE QueryBegins(p) \/ PollerStops(p)
    BY <2>1 DEF QueryBegins, PollerStops
  <2>2. CASE QueryEnds(p)
    <3>1. src[s] \in SourceStates
      BY DEF TypeOK
    <3>2. src'[s] = src[s] \/ (src[s].poller = p /\ \E o : src'[s] = [src[s] EXCEPT !.out = o])
      BY <2>2 DEF QueryEnds
    <3>3. CASE src'[s] = src[s]
      BY <3>3
    <3>4. CASE src[s].poller = p /\ \E o : src'[s] = [src[s] EXCEPT !.out = o]
      <4>1. PICK o : src'[s] = [src[s] EXCEPT !.out = o]
        BY <3>4
      <4>2. src[s].poller # None
        BY <3>4, BridgeAssumption
      <4> QED
        BY <3>1, <4>1, <4>2 DEF SourceStates
    <3> QED
      BY <3>2, <3>3, <3>4
  <2> QED
    BY <2>1, <2>2 DEF Poller
<1>3. ASSUME NEW s \in Sources
      PROVE  NewsTo(src'[s], slot, conn, fetch, saves) /\ ReadsOurs(src'[s], slot, conn, saves)
  <2>1. NewsTo(src[s], slot, conn, fetch, saves) /\ ReadsOurs(src[s], slot, conn, saves)
    BY DEF AllOurs, News, ReadOurs
  <2> QED
    BY <1>2, <2>1 DEF NewsTo, Informed, ReadsOurs, Present
<1> QED
  BY <1>1, <1>3 DEF AllOurs, News, ReadOurs, SentOurs, HeldOurs

(* Steps of the supervisor: what it fetches is what is saved, and a source *)
(* goes on after a fetch only if its settings are those fetched.           *)
LEMMA SupervisorOurs ==
    ASSUME TypeOK, Lone, AllOurs, Supervisor PROVE AllOurs'
<1>1. UNCHANGED <<saves, slot, conn>>
  <2>1. TimerFires \/ FetchBegins \/ FetchFails => UNCHANGED <<saves, slot, conn>>
    BY DEF TimerFires, FetchBegins, FetchFails, hubVars
  <2>2. FetchApplied => UNCHANGED hubVars /\ UNCHANGED conn
    BY Zenon DEF FetchApplied
  <2> QED
    BY <2>1, <2>2 DEF Supervisor, hubVars
<1>2. ASSUME \A s \in Sources : NewsTo(src'[s], slot, conn, fetch', saves)
                                /\ ReadsOurs(src'[s], slot, conn, saves)
      PROVE  AllOurs'
  BY <1>1, <1>2 DEF AllOurs, News, ReadOurs, SentOurs, HeldOurs
<1>3. \A s \in Sources : NewsTo(src[s], slot, conn, fetch, saves) /\ ReadsOurs(src[s], slot, conn, saves)
  BY DEF AllOurs, News, ReadOurs
<1>4. CASE TimerFires
  <2>1. UNCHANGED <<src, fetch>>
    BY <1>4 DEF TimerFires
  <2> QED
    BY <1>2, <1>3, <2>1
<1>5. CASE FetchFails
  <2>1. UNCHANGED src /\ fetch' = None
    BY <1>5 DEF FetchFails
  <2>2. ASSUME NEW s \in Sources PROVE NewsTo(src[s], slot, conn, fetch', saves)
    BY <1>3, <2>1 DEF NewsTo, Informed
  <2> QED
    BY <1>2, <1>3, <2>1, <2>2
<1>6. CASE FetchBegins
  <2>1. fetch = None /\ fetch' = Saved
    BY <1>6 DEF FetchBegins
  <2>2. Among(saves, Saved.sql)
    <3>1. Len(saves) \in DOMAIN saves
      BY DEF TypeOK
    <3> QED
      BY <3>1 DEF Among, Saved
  <2>3. ASSUME NEW s \in Sources
        PROVE  NewsTo(src'[s], slot, conn, fetch', saves) /\ ReadsOurs(src'[s], slot, conn, saves)
    <3>1. /\ Kept(src[s], src'[s]) /\ src'[s].stop = src[s].stop
          /\ src'[s].awaiting = IF src[s].awaiting = "asked" THEN "covered" ELSE src[s].awaiting
      BY <1>6, BegunShape
    <3>2. NewsTo(src[s], slot, conn, fetch, saves) /\ ReadsOurs(src[s], slot, conn, saves)
      BY <1>3
    <3> QED
      BY <2>1, <2>2, <3>1, <3>2 DEF NewsTo, Informed, ReadsOurs, Present, Kept
  <2> QED
    BY <1>2, <2>3
<1>7. CASE FetchApplied
  <2>1. fetch # None /\ fetch' = None
    BY <1>7, Zenon DEF FetchApplied
  <2>2. ASSUME NEW s \in Sources
        PROVE  NewsTo(src'[s], slot, conn, fetch', saves) /\ ReadsOurs(src'[s], slot, conn, saves)
    <3>1. \/ /\ Kept(src[s], src'[s])
             /\ src'[s].awaiting = IF src[s].awaiting = "covered" THEN "confirmed" ELSE src[s].awaiting
             /\ ~src'[s].stop => ~src[s].stop /\ (s = running => Unchanged(fetch))
          \/ Blank(src'[s])
      BY <1>7, AppliedShape
    <3>2. NewsTo(src[s], slot, conn, fetch, saves) /\ ReadsOurs(src[s], slot, conn, saves)
      BY <1>3
    <3>3. CASE Blank(src'[s])
      BY <3>3 DEF Blank, NewsTo, ReadsOurs, Present
    <3>4. CASE /\ Kept(src[s], src'[s])
               /\ src'[s].awaiting = IF src[s].awaiting = "covered" THEN "confirmed" ELSE src[s].awaiting
               /\ ~src'[s].stop => ~src[s].stop /\ (s = running => Unchanged(fetch))
      <4>1. ReadsOurs(src'[s], slot, conn, saves)
        BY <3>2, <3>4 DEF ReadsOurs, Present, Kept
      <4>2. ASSUME Present(src[s], slot.reg, conn), src[s].at = "open", ~src'[s].stop
            PROVE  Informed(src'[s], conn[src[s].conn], slot.notice, None, saves)
        <5>1. Informed(src[s], conn[src[s].conn], slot.notice, fetch, saves)
          BY <3>2, <3>4, <4>2 DEF NewsTo
        <5>2. s = running /\ src[s].sql = fetch.sql
          BY <3>4, <4>2 DEF Lone, Owned, Serves, Unchanged
        <5> QED
          BY <2>1, <3>4, <5>1, <5>2 DEF Informed, Kept
      <4>3. NewsTo(src'[s], slot, conn, fetch', saves)
        BY <2>1, <3>4, <4>2 DEF NewsTo, Present, Kept
      <4> QED
        BY <4>1, <4>3
    <3> QED
      BY <3>1, <3>3, <3>4
  <2> QED
    BY <1>2, <2>2
<1> QED
  BY <1>4, <1>5, <1>6, <1>7 DEF Supervisor

(* A change that was not announced is never forgotten.                     *)
LEMMA AnnouncedBefore ==
    ASSUME TypeOK, Shape, Timely, Own, [Next]_vars, ~folded', ~skipped' PROVE Announced
<1>1. CASE UNCHANGED <<folded, skipped>>
  BY <1>1 DEF Announced
<1>2. CASE Collection
  <2>1. CollectionStopped => UNCHANGED skipped /\ (folded => folded')
    BY Zenon DEF CollectionStopped
  <2>2. CollectionStarted => UNCHANGED skipped /\ (folded => folded')
    BY Zenon DEF CollectionStarted
  <2>3. CollectionStarting \/ CollectionFaulted => UNCHANGED <<folded, skipped>>
    BY DEF CollectionStarting, CollectionFaulted
  <2>4. CASE CollectionStopped \/ CollectionStarted
    BY <2>1, <2>2, <2>4 DEF Announced
  <2>5. CASE CollectionStarting \/ CollectionFaulted
    BY <1>1, <2>3, <2>5
  <2> QED
    BY <1>2, <2>4, <2>5 DEF Collection
<1>3. CASE Registry
  <2>1. Save => UNCHANGED <<folded, skipped>>
    BY Zenon DEF Save
  <2>2. Commit => (folded => folded') /\ (skipped => skipped')
    BY Zenon DEF Commit
  <2> QED
    <3>1. CASE Save
      BY <1>1, <2>1, <3>1
    <3>2. CASE Commit
      BY <2>2, <3>2, Zenon DEF Announced
    <3> QED
      BY <1>3, <3>1, <3>2 DEF Registry
<1>4. ASSUME NEW c \in Conns, Stream(c) \/ Break(c) PROVE UNCHANGED <<folded, skipped>>
  BY <1>4, StreamShape
<1>5. ASSUME NEW p \in Pollers, Poller(p) PROVE UNCHANGED <<folded, skipped>>
  BY <1>5 DEF Poller, QueryBegins, QueryEnds, PollerStops
<1>6. ASSUME NEW s \in Sources, Source(s) PROVE UNCHANGED <<folded, skipped>>
  <2>1. CASE Connect(s)
    BY <2>1, ConnectShape
  <2>2. CASE ConnectRefused(s)
    BY <2>2 DEF ConnectRefused
  <2>3. CASE OnWelcome(s)
    BY <2>3, WelcomeShape
  <2>4. CASE OnState(s)
    BY <2>4, ToldShape
  <2>5. CASE OnClose(s) \/ OnLost(s) \/ OnStop(s)
    BY <2>5, EndShape
  <2>6. CASE OnConfirmed(s) \/ OnSlotFree(s)
    BY <2>6, GoOnShape
  <2>7. CASE Send(s)
    BY <2>7, SendShape
  <2> QED
    BY <1>6, <2>1, <2>2, <2>3, <2>4, <2>5, <2>6, <2>7 DEF Source, Incoming
<1>7. ASSUME Supervisor PROVE UNCHANGED <<folded, skipped>>
  <2>1. TimerFires \/ FetchBegins \/ FetchFails => UNCHANGED <<folded, skipped>>
    BY DEF TimerFires, FetchBegins, FetchFails
  <2>2. FetchApplied => UNCHANGED folded /\ UNCHANGED skipped
    BY Zenon DEF FetchApplied
  <2> QED
    BY <1>7, <2>1, <2>2 DEF Supervisor
<1>8. UNCHANGED vars => UNCHANGED <<folded, skipped>>
  BY DEF vars
<1> QED
  BY <1>1, <1>2, <1>3, <1>4, <1>5, <1>6, <1>7, <1>8 DEF Next

(* Sound, with one poller at a time, it is inductive.                      *)
LEMMA InitSql == Init => SqlInv
<1> SUFFICES ASSUME Init PROVE SqlInv
  OBVIOUS
<1>1. \A s \in Sources : src[s] = NoSource
  BY DEF Init
<1>2. slot.held = None /\ slot.reg = None
  BY DEF Init
<1>3. Own /\ Heralded
  BY <1>1 DEF Own, Reads, Heralded, NoSource
<1>4. RegOpen /\ SentOurs /\ HeldOurs
  BY <1>2 DEF RegOpen, SentOurs, HeldOurs
<1>5. News /\ ReadOurs
  BY <1>1 DEF News, NewsTo, ReadOurs, ReadsOurs, Present, NoSource
<1> QED
  BY <1>3, <1>4, <1>5 DEF SqlInv, AllOurs

LEMMA StepSql == Sound /\ Sound' /\ Lone /\ SqlInv /\ [Next]_vars => SqlInv'
<1> SUFFICES ASSUME Sound, Sound', Lone, SqlInv, [Next]_vars PROVE SqlInv'
  OBVIOUS
<1>1. TypeOK /\ Shape /\ Timely
  BY DEF Sound
<1>2. Own /\ RegOpen /\ Heralded
  BY DEF SqlInv
<1>3. Own' /\ RegOpen' /\ Heralded'
  BY <1>2, StepOwn, StepRegOpen, StepHeralded
<1>4. ASSUME ~folded', ~skipped' PROVE AllOurs'
  <2>1. AllOurs
    BY <1>1, <1>2, <1>4, AnnouncedBefore DEF SqlInv
  <2>2. CASE Collection \/ Registry
    BY <1>1, <1>2, <1>4, <2>1, <2>2, HubOurs
  <2>3. ASSUME NEW c \in Conns, Stream(c) \/ Break(c) PROVE AllOurs'
    BY <1>1, <1>2, <2>1, <2>3, StreamOurs
  <2>4. ASSUME NEW p \in Pollers, Poller(p) PROVE AllOurs'
    BY <1>1, <2>1, <2>4, PollerOurs
  <2>5. ASSUME NEW s \in Sources, Source(s) PROVE AllOurs'
    BY <1>2, <1>3, <2>1, <2>5, SourceOurs
  <2>6. CASE Supervisor
    BY <1>1, <2>1, <2>6, SupervisorOurs
  <2>7. CASE UNCHANGED vars
    BY <2>1, <2>7 DEF vars, AllOurs, News, ReadOurs, SentOurs, HeldOurs
  <2> QED
    BY <2>2, <2>3, <2>4, <2>5, <2>6, <2>7 DEF Next
<1>5. Announced' => AllOurs'
  BY <1>4 DEF Announced
<1> QED
  BY <1>3, <1>5 DEF SqlInv

(* What the slot holds was read with the SQL of the settings it was built  *)
(* from or of later ones, however the turns of the collection, saves and   *)
(* commits, broken links, replaced sources and late fetches interleave, as *)
(* long as every change of settings was announced and heard of.            *)
THEOREM HeldIsOurs == Spec => []HeldIsOurSql
<1>1. SqlInv => HeldIsOurSql
  BY DEF SqlInv, Announced, AllOurs, HeldOurs, Among, HeldIsOurSql
<1>2. Spec => []Sound
  BY InitSound, StepSound, PTL DEF Spec
<1>3. Init => Lone
  BY DEF Init, Idle, NoSource, Lone, Permitted, Owned, Serves, OnePoller
<1>4. Sound /\ Lone /\ [Next]_vars => Lone'
  BY StepLone DEF Sound
<1> QED
  BY <1>1, <1>2, <1>3, <1>4, InitSql, StepSql, PTL DEF Spec
=============================================================================
