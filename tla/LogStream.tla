----------------------------- MODULE LogStream -----------------------------
(***************************************************************************)
(* The live log: every event is put at the head of a backlog and written   *)
(* to all subscribed websockets by the goroutine that logs it, under       *)
(* logMu; a new subscriber is registered under logMu and then sent the     *)
(* backlog of that moment without it.                                      *)
(*                                                                         *)
(* Two goroutines may so write to one connection at once, which the        *)
(* websocket library answers with a panic, when it notices.  It copies the *)
(* line into the connection's one write buffer before it looks, so when it *)
(* does not notice, either write may send the other's line, or a mixture   *)
(* of the two.                                                             *)
(***************************************************************************)
EXTENDS Naturals, Sequences, SequencesExt

CONSTANTS
    Conns,          \* websocket connections
    Writers,        \* goroutines that log
    MaxLines,       \* bound: lines logged
    MaxLogBacklog   \* lines kept for a new subscriber

ASSUME LogAssumption ==
    "free" \notin Writers /\ MaxLines \in Nat /\ MaxLogBacklog \in Nat

VARIABLES
    logMu,          \* the goroutine that holds the mutex, or "free"
    logged,         \* lines logged so far; a line is its number
    backlog,        \* the newest lines, newest first
    clients,        \* the registered connections
    conn,           \* [connection -> its handler and what it was sent]
    writer          \* [goroutine -> its writeEvent]

logVars == <<logMu, logged, backlog, clients, conn, writer>>

Lines == 1..MaxLines

(* What a write may send: a line, or the remains of two (of which the      *)
(* peer makes what it can).                                                *)
Mixture == 0
Messages == Lines \cup {Mixture}

(* `torn` holds the lines that others wrote while this write was under     *)
(* way; `overlapped` remembers that it ever held one.                      *)
NoWriter == [step |-> "idle", left |-> {}]
NoConn == [step |-> "away", up |-> TRUE, todo |-> <<>>, writing |-> FALSE,
           torn |-> {}, overlapped |-> FALSE, first |-> 1, got |-> <<>>]

(* What a connection was sent is forgotten when its handler ends.          *)
ClosedConn == [NoConn EXCEPT !.step = "closed", !.up = FALSE]

LogTypeOK ==
    /\ logMu \in Writers \cup {"free"}
    /\ logged \in 0..MaxLines
    /\ Len(backlog) <= MaxLogBacklog /\ ToSet(backlog) \subseteq Lines
    /\ clients \subseteq Conns
    /\ \A c \in Conns :
           /\ conn[c].step \in {"away", "replaying", "reading", "closed"}
           /\ {conn[c].up, conn[c].writing, conn[c].overlapped} \subseteq BOOLEAN
           /\ ToSet(conn[c].todo) \cup conn[c].torn \subseteq Lines
           /\ ToSet(conn[c].got) \subseteq Messages
           /\ conn[c].first \in 1..(MaxLines + 1)
    /\ writer \in [Writers -> [step : {"idle", "fanout", "panicked"},
                               left : SUBSET Conns]]

LogInit ==
    /\ logMu = "free" /\ logged = 0 /\ backlog = <<>> /\ clients = {}
    /\ conn = [c \in Conns |-> NoConn]
    /\ writer = [w \in Writers |-> NoWriter]

---------------------------------------------------------------------------
(* handleLogsSocket                                                        *)

(* A plausible slip: the loop over the backlog stops before index 0.       *)
ReplayedAllButNewest == IF backlog = <<>> THEN <<>> ELSE Reverse(Tail(backlog))

(* The backlog is sent oldest first.                                       *)
Replayed == Reverse(backlog)

Connect(c) ==
    /\ conn[c].step = "away" /\ logMu = "free"
    /\ clients' = clients \cup {c}
    /\ conn' = [conn EXCEPT ![c] =
                   [NoConn EXCEPT !.step = "replaying", !.todo = Replayed,
                                  !.first = logged + 1 - Len(backlog)]]
    /\ UNCHANGED <<logMu, logged, backlog, writer>>

ReplayBegins(c) ==
    /\ conn[c].step = "replaying" /\ conn[c].todo # <<>> /\ ~conn[c].writing
    /\ conn' = [conn EXCEPT ![c].writing = TRUE]
    /\ UNCHANGED <<logMu, logged, backlog, clients, writer>>

(* What the write buffer holds when it is sent.                            *)
Sent(own, others) ==
    IF others = {} THEN {own} ELSE {own, Mixture} \cup others

(* A write that fails closes the connection and leaves it registered.      *)
ReplayEnds(c) ==
    /\ conn[c].writing
    /\ \E m \in Sent(Head(conn[c].todo), conn[c].torn) :
          conn' = [conn EXCEPT ![c] =
              IF conn[c].up
              THEN [conn[c] EXCEPT !.got = Append(@, m), !.todo = Tail(@),
                                   !.writing = FALSE, !.torn = {}]
              ELSE ClosedConn]
    /\ UNCHANGED <<logMu, logged, backlog, clients, writer>>

(* The other goroutine wrote meanwhile: this one may be the one to panic;  *)
(* gin recovers it, and the connection stays registered.                   *)
ReplayPanics(c) ==
    /\ conn[c].writing /\ conn[c].torn # {}
    /\ conn' = [conn EXCEPT ![c] = ClosedConn]
    /\ UNCHANGED <<logMu, logged, backlog, clients, writer>>

Reads(c) ==
    /\ conn[c].step = "replaying" /\ conn[c].todo = <<>> /\ ~conn[c].writing
    /\ conn' = [conn EXCEPT ![c].step = "reading"]
    /\ UNCHANGED <<logMu, logged, backlog, clients, writer>>

PeerLeaves(c) ==
    /\ conn[c].step \in {"replaying", "reading"} /\ conn[c].up
    /\ conn' = [conn EXCEPT ![c].up = FALSE]
    /\ UNCHANGED <<logMu, logged, backlog, clients, writer>>

(* ReadMessage fails: the deferred function unregisters and closes.        *)
Unregisters(c) ==
    /\ conn[c].step = "reading" /\ ~conn[c].up /\ logMu = "free"
    /\ clients' = clients \ {c}
    /\ conn' = [conn EXCEPT ![c] = ClosedConn]
    /\ UNCHANGED <<logMu, logged, backlog, writer>>

---------------------------------------------------------------------------
(* writeEvent, when the event goes to the live log                         *)

FanOutBegins(w) ==
    /\ writer[w].step = "idle" /\ logMu = "free" /\ logged < MaxLines
    /\ logMu' = w
    /\ logged' = logged + 1
    /\ backlog' = SubSeq(<<logged + 1>> \o backlog, 1,
                         IF Len(backlog) < MaxLogBacklog
                         THEN Len(backlog) + 1 ELSE MaxLogBacklog)
    /\ writer' = [writer EXCEPT ![w] = [step |-> "fanout", left |-> clients]]
    /\ UNCHANGED <<clients, conn>>

(* A connection that does not take the line is closed and forgotten.  When *)
(* the backlog is being written to it, the two writes share its buffer.    *)
UnderWay(c) == IF conn[c].writing THEN {Head(conn[c].todo)} ELSE {}

FanOutWrites(w, c) ==
    LET ok == conn[c].up /\ conn[c].step # "closed"
        shared == conn[c].writing
    IN
    /\ writer[w].step = "fanout" /\ c \in writer[w].left
    /\ writer' = [writer EXCEPT ![w].left = @ \ {c}]
    /\ clients' = IF ok THEN clients ELSE clients \ {c}
    /\ \E m \in Sent(logged, UnderWay(c)) :
          conn' = [conn EXCEPT ![c] =
              IF ok
              THEN [conn[c] EXCEPT !.got = Append(@, m),
                                   !.torn = IF shared THEN @ \cup {logged} ELSE @,
                                   !.overlapped = @ \/ shared]
              ELSE [conn[c] EXCEPT !.up = FALSE]]
    /\ UNCHANGED <<logMu, logged, backlog>>

(* The connection is being written to: the goroutine may panic where it    *)
(* is, and nothing gives logMu back.                                       *)
FanOutPanics(w, c) ==
    /\ writer[w].step = "fanout" /\ c \in writer[w].left /\ conn[c].writing
    /\ writer' = [writer EXCEPT ![w].step = "panicked"]
    /\ UNCHANGED <<logMu, logged, backlog, clients, conn>>

FanOutEnds(w) ==
    /\ writer[w].step = "fanout" /\ writer[w].left = {}
    /\ writer' = [writer EXCEPT ![w] = NoWriter]
    /\ logMu' = "free"
    /\ UNCHANGED <<logged, backlog, clients, conn>>

LogNext ==
    \/ \E c \in Conns :
        \/ Connect(c) \/ ReplayBegins(c) \/ ReplayEnds(c) \/ ReplayPanics(c)
        \/ Reads(c) \/ PeerLeaves(c) \/ Unregisters(c)
    \/ \E w \in Writers :
        \/ FanOutBegins(w) \/ FanOutEnds(w)
        \/ \E c \in Conns : FanOutWrites(w, c) \/ FanOutPanics(w, c)

LogSpec == LogInit /\ [][LogNext]_logVars

---------------------------------------------------------------------------
(* A subscriber is never sent a line twice, unless a live line was written *)
(* to it in the middle of a write of the backlog and the library let both  *)
(* go through; and once it is reading and no line is under way, it was     *)
(* sent every line from the oldest of the backlog it found to the last one *)
(* logged, with no gap between the backlog and the live lines (the order   *)
(* may be another: handleLogsSocket takes the backlog under the mutex and  *)
(* sends it without).  Overlapping writes may put one line, or a mixture,  *)
(* in the place of another, but even then as many messages are sent as     *)
(* there are lines.                                                        *)
EachLineOnce ==
    \A c \in Conns :
        LET caughtUp == conn[c].step = "reading" /\ conn[c].up /\ logMu = "free" IN
        /\ ~conn[c].overlapped =>
               /\ IsInjective(conn[c].got)
               /\ caughtUp => ToSet(conn[c].got) = conn[c].first..logged
        /\ caughtUp => Len(conn[c].got) = logged + 1 - conn[c].first

=============================================================================
