----------------------------- MODULE Recording ------------------------------
(***************************************************************************)
(* MVD recording and QTV streams (sv_demo.c, sv_demo_qtv.c, and            *)
(* SV_SendDemoMessage of sv_send.c).  What happens on the server is        *)
(* gathered in a ring of frames, written a few frames late to every        *)
(* destination: a file, a file behind a cache, or the socket of a QTV      *)
(* proxy, also behind a cache.  A proxy connects, waits in a list of its   *)
(* own until it has been let in, and becomes one destination more.         *)
(*                                                                         *)
(* Everything that one call of MVDWrite_Begin writes is a unit; units are  *)
(* numbered, and sizes of caches counted in them.  Unit 0 stands for the   *)
(* initial game state that a new destination is sent.  demo_t is a record, *)
(* with the sockets that are open and the files that have been closed, and *)
(* functions of the code are operators that return what they make of it.   *)
(***************************************************************************)
EXTENDS Integers, Sequences, SequencesExt, FiniteSets

CONSTANTS Sockets, Files,    \* those that the server will ever open
          UPDATE_BACKUP,
          Delay,             \* frames between gathering and writing (5)
          CacheSize,         \* of a destination, in units
          FlushBelow,        \* DEMO_FLUSH_CACHE_IF_LESS_THAN_THIS
          qtv_maxstreams, HasPassword,
          MaxUnits           \* bound: units written

ASSUME RecordingAssumption ==
  /\ Sockets \cap Files = {}
  /\ Delay \in Nat /\ UPDATE_BACKUP \in Nat /\ UPDATE_BACKUP > Delay + 1
  /\ CacheSize \in Nat /\ FlushBelow \in Nat /\ qtv_maxstreams \in Nat
  /\ HasPassword \in BOOLEAN /\ MaxUnits \in Nat

VARIABLES demo, used   \* used: the sockets and files there have been

vars == <<demo, used>>

Empty == [units |-> <<>>, overflowed |-> FALSE]

(* What reading or writing a socket or file comes to.                      *)
Outcomes == {"all", "none", "error"}
Works(Ids) == {io \in [Ids -> Outcomes] : \A i \in Ids \cap Files : io[i] # "none"}

NewDest(id, type) ==
  [id |-> id, type |-> type, error |-> FALSE, units |-> <<>>, cached |-> 0]

NewPending(id) == [id |-> id, error |-> FALSE, proved |-> FALSE]

Streams(d) == {i \in DOMAIN d.dest : d.dest[i].type = "stream"}

(* What is left of a list that is walked through.                          *)
Without(s, Gone) ==
  LET left[n \in 0 .. Len(s)] ==
        IF n = 0 THEN <<>>
        ELSE IF s[n] \in Gone THEN left[n - 1] ELSE Append(left[n - 1], s[n])
  IN  left[Len(s)]

-----------------------------------------------------------------------------
(* Destinations.                                                           *)

(* DestClose, for those of the list that are in Gone.  What becomes of a   *)
(* file is "completed", "removed" or "broken".                             *)
Close(d, Gone, how) ==
  [d EXCEPT !.dest = Without(@, Gone),
            !.open = @ \ {e.id : e \in Gone},
            !.closed = @ \cup {[id |-> e.id, how |-> how, units |-> e.units,
                                last |-> d.unit, cut |-> e.error] :
                                 e \in {f \in Gone : f.type # "stream"}}]

Broken(d) == {e \in Range(d.dest) : e.error}

(* A faulty variant of DemoWriteDest: what finds no room is left out.      *)
DemoWriteDestSome(e, unit, io) ==
  IF e.error \/ e.cached >= CacheSize THEN e
  ELSE [e EXCEPT !.units = Append(@, unit),
                 !.cached = IF e.type = "file" THEN 0 ELSE @ + 1]

DemoWriteDest(e, unit, io) ==
  IF \/ e.error
     \/ e.type = "file" /\ io[e.id] = "error"
     \/ e.type # "file" /\ e.cached >= CacheSize
  THEN [e EXCEPT !.error = TRUE]
  ELSE [e EXCEPT !.units = Append(@, unit),
                 !.cached = IF e.type = "file" THEN @ ELSE @ + 1]

DemoWrite(d, units, io) ==
  LET wrote[n \in 0 .. Len(units)] ==
        IF n = 0 THEN d.dest
        ELSE [i \in DOMAIN d.dest |-> DemoWriteDest(wrote[n - 1][i], units[n], io)]
  IN  [d EXCEPT !.dest = wrote[Len(units)]]

(* What DestFlush does with one destination: send, fwrite or fflush.  An   *)
(* error is also a stream that has been silent for qtv_streamtimeout, a    *)
(* file that has grown beyond sv_demoMaxSize, or, when the streams are     *)
(* read after it (QTV_ReadDests), what a proxy should not have said.       *)
Flushed(e, compleate, io) ==
  CASE e.type = "stream" ->
         [e EXCEPT !.error = (io[e.id] = "error"),
                   !.cached = IF io[e.id] = "all" THEN 0 ELSE @]
    [] e.type = "buffered" /\ (compleate \/ e.cached + FlushBelow > CacheSize) ->
         [e EXCEPT !.error = (io[e.id] = "error"), !.cached = 0]
    [] OTHER -> [e EXCEPT !.error = (io[e.id] = "error")]

(* A faulty variant of DestFlush: that the last one has gone is not seen.  *)
DestFlushOnly(d, compleate, io) ==
  LET left == Close(d, Broken(d), "broken")
  IN  [left EXCEPT !.dest = [i \in DOMAIN @ |-> Flushed(@[i], compleate, io)]]

(* DestFlush.  Those with an error are closed; when none is left, so is    *)
(* the recording (SV_MVDStop with reason 3).                               *)
DestFlush(d, compleate, io) ==
  LET left == Close(d, Broken(d), "broken")
  IN  IF d.dest = <<>> THEN d
      ELSE IF left.dest = <<>> THEN [left EXCEPT !.mvdrecording = FALSE]
      ELSE [left EXCEPT !.dest = [i \in DOMAIN @ |-> Flushed(@[i], compleate, io)]]

(* DestCloseAllFlush                                                       *)
DestCloseAllFlush(d, how, mvdonly, io) ==
  LET left == DestFlush(d, TRUE, io)
  IN  Close(left, {e \in Range(left.dest) : ~ mvdonly \/ e.type # "stream"}, how)

(* SV_MVDStop for the reasons 2 and 4: demos are removed.                  *)
Cancel(d, mvdonly, io) ==
  LET left == DestCloseAllFlush(d, "removed", mvdonly, io)
  IN  [left EXCEPT !.mvdrecording = (left.dest # <<>>)]

-----------------------------------------------------------------------------
(* Frames.                                                                 *)

Frame(d, n) == d.frames[n % UPDATE_BACKUP]

(* MVDWrite_Begin and what is written after it.  It is only when more is   *)
(* to be written that the overflow of a frame is noticed.                  *)
MVDWrite(d, overflow, io) ==
  LET i == d.parsecount % UPDATE_BACKUP
  IN  IF d.frames[i].overflowed THEN Cancel(d, FALSE, io)
      ELSE IF overflow
      THEN [d EXCEPT !.frames[i] = [units |-> <<>>, overflowed |-> TRUE]]
      ELSE [d EXCEPT !.frames[i].units = Append(@, d.unit + 1), !.unit = @ + 1]

(* A faulty variant of SV_MVDWritePackets: as many as have been asked for  *)
(* without the one being gathered.                                         *)
WrittenShort(d, num) == (d.lastwritten .. d.lastwritten + num - 1) \cap (0 .. d.parsecount - 1)

(* SV_MVDWritePackets: the frames it writes.                               *)
Written(d, num) == (d.lastwritten .. d.lastwritten + num - 1) \cap (0 .. d.parsecount)

(* It stops at a frame that has overflowed.                                *)
MVDWritePackets(d, num, io) ==
  LET Numbers == {n \in Written(d, num) :
                    \A m \in d.lastwritten .. n : ~ Frame(d, m).overflowed}
      units == FlattenSeq([i \in 1 .. Cardinality(Numbers) |->
                             Frame(d, d.lastwritten + i - 1).units])
      next == d.lastwritten + Cardinality(Numbers)
  IN  [DemoWrite(d, units, io) EXCEPT
         !.frames = [i \in DOMAIN @ |->
                       IF \E n \in Numbers : i = n % UPDATE_BACKUP THEN Empty ELSE @[i]],
         !.lastwritten = IF next > d.parsecount THEN d.parsecount ELSE next]

(* Has it met one?  Then all recording is stopped, unless it is already    *)
(* being stopped ("recursion").                                            *)
Overflows(d, num) == \E n \in Written(d, num) : Frame(d, n).overflowed

(* SV_MVDStop for the reasons 0 and 1, and from SV_MVDStop_f.              *)
Stop(d, overflow, io) ==
  LET i == d.parsecount % UPDATE_BACKUP
      ended == IF d.frames[i].overflowed THEN d ELSE MVDWrite(d, overflow, io)
      num == d.parsecount - d.lastwritten + 1
      left == DestCloseAllFlush(MVDWritePackets(ended, num, io),
                IF Overflows(ended, num) THEN "overflowed" ELSE "completed", TRUE, io)
  IN  [left EXCEPT !.mvdrecording = (left.dest # <<>>)]

(* SV_MVD_Record: when nothing is being recorded, all of demo_t is cleared *)
(* first.                                                                  *)
Cleared(d) ==
  IF d.mvdrecording THEN d
  ELSE [d EXCEPT !.dest = <<>>, !.pendingdest = <<>>, !.parsecount = 0,
                 !.lastwritten = 0, !.frames = [i \in DOMAIN @ |-> Empty]]

(* SV_MVD_Record and SV_MVD_SendInitialGamestate for a new destination.    *)
Record(d, e, io) ==
  [Cleared(d) EXCEPT !.dest = <<DemoWriteDest(e, 0, io)>> \o @,
                     !.mvdrecording = TRUE]

-----------------------------------------------------------------------------
(* Proxies.  What is heard of one: nothing yet; nothing for more than      *)
(* qtv_pendingtimeout ("late"); that the connection was closed, or what is *)
(* not an acceptable request, a name in use included ("unfit"); a request  *)
(* for a challenge ("MD4");                                                *)
(* or one that holds the password, or the answer to the challenge, and it  *)
(* is "right" or "wrong".                                                  *)
Requests == {"silent", "late", "unfit", "MD4", "wrong", "right"}

(* A faulty variant of the answer: who has been sent a challenge needs no  *)
(* answer to it.                                                           *)
AnswerUnchecked(request) ==
  CASE request \in {"silent"} -> "wait"
    [] request \in {"late", "unfit"} -> "refuse"
    [] OTHER -> IF HasPassword /\ request = "wrong" THEN "refuse" ELSE "begin"

Answer(request) ==
  CASE request = "silent" -> "wait"
    [] request \in {"late", "unfit"} -> "refuse"
    [] OTHER -> IF ~ HasPassword \/ request = "right" THEN "begin"
                ELSE IF request = "MD4" THEN "wait"
                ELSE "refuse"

(* One proxy that waits in the list.  SV_InitStream asks for room; once it *)
(* has become a destination, its entry no longer has the socket.           *)
RunOne(run, p, request, io) ==
  LET d == run.d
      q == [p EXCEPT !.proved = @ \/ request = "right"]
      Begins == Answer(request) = "begin" /\ Cardinality(Streams(d)) < qtv_maxstreams
  IN  IF Answer(request) = "wait"
      THEN [run EXCEPT !.list = Append(@, q)]
      ELSE IF ~ Begins
      THEN [run EXCEPT !.list = Append(@, [q EXCEPT !.error = TRUE])]
      ELSE [d |-> [Record(d, NewDest(p.id, "stream"), io) EXCEPT
                     !.proved = IF q.proved THEN @ \cup {p.id} ELSE @],
            lost |-> run.lost \/ ~ d.mvdrecording,
            list |-> Append(run.list, [q EXCEPT !.error = TRUE, !.id = "taken"])]

(* SV_MVD_RunPendingConnections: those that are late or were refused go,   *)
(* the others are heard in turn.  (Of several in a row that go, the code   *)
(* may leave every other one for the next frame.)  The list is walked to   *)
(* its end even when Cleared has taken it away.                            *)
RunPending(d, requests, io) ==
  LET Gone == {p \in Range(d.pendingdest) : p.error \/ requests[p.id] = "late"}
      left == [d EXCEPT !.pendingdest = Without(@, Gone),
                        !.open = @ \ {p.id : p \in Gone}]
      Heard == left.pendingdest
      run[n \in 0 .. Len(Heard)] ==
        IF n = 0 THEN [d |-> left, lost |-> FALSE, list |-> <<>>]
        ELSE RunOne(run[n - 1], Heard[n], requests[Heard[n].id], io)
      done == run[Len(Heard)]
  IN  [done.d EXCEPT !.pendingdest = IF done.lost THEN <<>> ELSE done.list]

-----------------------------------------------------------------------------
Init ==
  /\ demo = [dest |-> <<>>, pendingdest |-> <<>>, mvdrecording |-> FALSE,
             parsecount |-> 0, lastwritten |-> 0,
             frames |-> [i \in 0 .. UPDATE_BACKUP - 1 |-> Empty],
             unit |-> 0, open |-> {}, closed |-> {}, proved |-> {}]
  /\ used = {}

Waiting == {p.id : p \in Range(demo.pendingdest)}
Unheard == {p.id : p \in {q \in Range(demo.pendingdest) : ~ q.error}}
Members == {e.id : e \in Range(demo.dest)}

(* SV_SendDemoMessage, once per frame.  When the last frame of the demo is *)
(* not long ago, the proxies that wait are all that is looked after.       *)
SendDemoMessage ==
  /\ demo.unit < MaxUnits
  /\ \E requests \in [Unheard -> Requests], overflow, soon \in BOOLEAN :
     \E io \in Works(Members \cup {s \in Unheard : Answer(requests[s]) = "begin"}) :
       LET heard == RunPending(demo, requests, io)
           said == IF heard.mvdrecording THEN MVDWrite(heard, overflow, io) ELSE heard
           due == said.mvdrecording /\ said.parsecount - said.lastwritten > Delay
           out == IF ~ due THEN said
                  ELSE IF Overflows(said, 1) THEN Cancel(said, FALSE, io)
                  ELSE MVDWritePackets(said, 1, io)
           left == DestFlush(out, FALSE, io)
       IN  demo' = IF heard.mvdrecording /\ soon THEN heard
                   ELSE IF heard.mvdrecording /\ left.mvdrecording
                   THEN [left EXCEPT !.parsecount = @ + 1]
                   ELSE left
  /\ UNCHANGED used

(* SV_MVDStream_Poll: a proxy connects.                                    *)
Accept(s) ==
  /\ s \notin used
  /\ used' = used \cup {s}
  /\ demo' = IF qtv_maxstreams = 0 \/ Cardinality(Streams(demo)) < qtv_maxstreams
             THEN [demo EXCEPT !.open = @ \cup {s},
                               !.pendingdest = <<NewPending(s)>> \o @]
             ELSE demo

(* SV_MVDCloseStreams, when the port for proxies is closed or changed.     *)
CloseStreams ==
  /\ demo' = [demo EXCEPT
       !.dest = [i \in DOMAIN @ |-> IF @[i].type = "stream"
                                    THEN [@[i] EXCEPT !.error = TRUE] ELSE @[i]],
       !.pendingdest = [i \in DOMAIN @ |-> [@[i] EXCEPT !.error = TRUE]]]
  /\ UNCHANGED used

(* record and easyrecord: SV_InitRecordFile.                               *)
RecordFile(f, type) ==
  /\ f \notin used
  /\ used' = used \cup {f}
  /\ \E io \in Works({f}) :
       demo' = [Record(demo, NewDest(f, type), io) EXCEPT !.open = @ \cup {f}]

(* stop, which leaves the proxies alone.                                   *)
StopRecording ==
  /\ demo.mvdrecording /\ demo.unit < MaxUnits
  /\ \E io \in Works(Members), overflow \in BOOLEAN :
       demo' = Stop(demo, overflow, io)
  /\ UNCHANGED used

(* cancel                                                                  *)
CancelRecording ==
  /\ demo.mvdrecording
  /\ \E io \in Works(Members) : demo' = Cancel(demo, TRUE, io)
  /\ UNCHANGED used

(* SV_Map and SV_SpawnServer: the recording is stopped, sv is cleared with *)
(* sv.mvdrecording, and SV_MVD_Record(NULL, true) is to go on for the      *)
(* proxies.                                                                *)
MapChange ==
  /\ demo.unit < MaxUnits
  /\ \E io \in Works(Members), overflow \in BOOLEAN :
       LET stopped == IF demo.mvdrecording THEN Stop(demo, overflow, io) ELSE demo
           level == Cleared([stopped EXCEPT !.mvdrecording = FALSE])
       IN  demo' = IF level.dest = <<>> THEN level
                   ELSE [DemoWrite(level, <<0>>, io) EXCEPT !.mvdrecording = TRUE]
  /\ UNCHANGED used

Next ==
  \/ SendDemoMessage
  \/ \E s \in Sockets : Accept(s)
  \/ CloseStreams
  \/ \E f \in Files, type \in {"file", "buffered"} : RecordFile(f, type)
  \/ StopRecording
  \/ CancelRecording
  \/ MapChange

Spec == Init /\ [][Next]_vars

-----------------------------------------------------------------------------
(* Something is being recorded exactly when there is a destination: a      *)
(* destination that is closed for an error, the last one included, takes   *)
(* the recording with it (sv_demo.c:155, 874, 908).                        *)
RecordingIffDest == demo.mvdrecording <=> demo.dest # <<>>

(* A sequence of units with none missing: after the game state, those from *)
(* some number on.                                                         *)
WithoutGap(units) ==
  units # <<>> =>
    /\ units[1] = 0
    /\ \A i \in 1 .. Len(units) - 1 :
         (units[i] # 0 /\ units[i + 1] # 0) => units[i + 1] = units[i] + 1

(* Whatever becomes of the other destinations, one without an error has    *)
(* been given the game state and then all that was written, in order, up   *)
(* to the frame that is written next (sv_demo.c:285).                      *)
NoGap ==
  \A e \in Range(demo.dest) : ~ e.error => WithoutGap(e.units)

(* A demo said to be completed has everything that was recorded from its   *)
(* first unit to "EndOfDemo" (sv_demo.c:894).                              *)
CompletedIsComplete ==
  \A c \in demo.closed :
    (c.how = "completed" /\ ~ c.cut) =>
      /\ WithoutGap(c.units)
      /\ Len(c.units) > 1 /\ c.units[Len(c.units)] = c.last

(* A proxy is sent the game only if it has shown to know the password      *)
(* (sv_demo_qtv.c:647).                                                    *)
StreamsHaveProved ==
  HasPassword => \A i \in Streams(demo) : demo.dest[i].id \in demo.proved

(* "fields below, like ->dest and ->pendingdest must not be memset to 0"   *)
(* (server.h:518): every socket that is open belongs to a destination or   *)
(* to a proxy that waits.                                                  *)
NoSocketLost ==
  demo.open \cap Sockets \subseteq Waiting \cup Members
=============================================================================
