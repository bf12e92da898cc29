--------------------------- MODULE LogStreamProofs ---------------------------
(***************************************************************************)
(* The live log for any number of subscribers, goroutines that log, lines  *)
(* and any length of the backlog: its states are well typed, and a         *)
(* subscriber none of whose writes overlapped gets each line once and      *)
(* misses none, and any other one at least gets as many messages.          *)
(*                                                                         *)
(* What is inductive is where each line of a subscriber is (LinesOK): among *)
(* those it got, among those of the backlog it is still to be sent, or,    *)
(* the last one only, with the goroutine that is writing it to the         *)
(* connections that were registered when it was logged.  No line is in two *)
(* of these places, and together they are all lines from the oldest of the *)
(* backlog on.  Of a subscriber that was sent a mixture only the numbers   *)
(* are known (MessagesCounted).  logMu makes the places of one moment fit  *)
(* together: a subscriber is registered while nobody logs (MutexInv), with *)
(* the backlog that ends at the last line logged (BacklogInv).             *)
(***************************************************************************)
EXTENDS LogStream, SequenceTheorems, TLAPS

Connection ==
  [step : {"away", "replaying", "reading", "closed"}, up : BOOLEAN, todo : Seq(Lines),
   writing : BOOLEAN, torn : SUBSET Lines, overlapped : BOOLEAN,
   first : 1 .. (MaxLines + 1), got : Seq(Messages)]

(* The last line is still to be written to c.                              *)
OwesLine(c) == \E w \in Writers : c \in writer[w].left

(* A connection when n lines have been logged.                             *)
LinesApart(r, n) ==
  /\ ToSet(r.got) \cup ToSet(r.todo) \subseteq 1 .. n
  /\ IsInjective(r.got) /\ IsInjective(r.todo)
  /\ ToSet(r.got) \cap ToSet(r.todo) = {}

LinesWhole(r, n, owed) ==
  ToSet(r.got) \cup ToSet(r.todo) \cup (IF owed THEN {n} ELSE {}) = r.first .. n

(* The length of a sequence, with Len closed to arithmetic.                *)
HowMany(s) == Len(s)

MessagesCounted(r, n, owed) ==
  HowMany(r.got) + HowMany(r.todo) = (IF owed THEN n ELSE n + 1) - r.first

Connected(r) == r.step \in {"replaying", "reading"} /\ r.up

LinesOK(r, n, owed) ==
  /\ LinesApart(r, n)
  /\ owed => n \notin ToSet(r.got) \cup ToSet(r.todo)
  /\ Connected(r) => LinesWhole(r, n, owed)

ConnOK(r, n, registered, owed) ==
  /\ r \in Connection
  /\ r.first <= n + 1
  /\ r.writing => r.step = "replaying" /\ r.todo # <<>>
  /\ r.step = "reading" => r.todo = <<>>
  /\ r.step = "away" => r = NoConn /\ ~registered /\ ~owed
  /\ owed => n \in Lines
  /\ Connected(r) => registered /\ MessagesCounted(r, n, owed)
  /\ r.torn # {} => r.overlapped
  /\ ~r.overlapped => LinesOK(r, n, owed)

MutexInv ==
  /\ logMu \in Writers \cup {"free"}
  /\ logged \in 0 .. MaxLines
  /\ clients \subseteq Conns
  /\ writer \in [Writers -> [step : {"idle", "fanout", "panicked"}, left : SUBSET Conns]]
  /\ \A w \in Writers : /\ writer[w].step = "idle" <=> logMu # w
                        /\ writer[w].step = "idle" => writer[w].left = {}

BacklogInv ==
  /\ backlog \in Seq(Lines)
  /\ Len(backlog) <= MaxLogBacklog /\ Len(backlog) <= logged
  /\ \A i \in 1 .. Len(backlog) : backlog[i] = logged + 1 - i

ConnInv ==
  /\ DOMAIN conn = Conns
  /\ \A c \in Conns : ConnOK(conn[c], logged, c \in clients, OwesLine(c))

LogInv == MutexInv /\ BacklogInv /\ ConnInv

-----------------------------------------------------------------------------
(* Sequences without repetition.                                           *)

LEMMA AppendNew ==
  ASSUME NEW S, NEW s \in Seq(S), NEW e \in S
  PROVE  /\ Append(s, e) \in Seq(S)
         /\ ToSet(Append(s, e)) = ToSet(s) \cup {e}
         /\ HowMany(s) \in Nat /\ HowMany(Append(s, e)) = HowMany(s) + 1
         /\ IsInjective(s) /\ e \notin ToSet(s) => IsInjective(Append(s, e))
<1>1. /\ Append(s, e) \in Seq(S) /\ Len(s) \in Nat /\ Len(Append(s, e)) = Len(s) + 1
      /\ DOMAIN s = 1 .. Len(s) /\ DOMAIN Append(s, e) = 1 .. (Len(s) + 1)
      /\ \A i \in 1 .. Len(s) : Append(s, e)[i] = s[i]
      /\ Append(s, e)[Len(s) + 1] = e
  BY AppendProperties, LenProperties
<1>2. 1 .. (Len(s) + 1) = (1 .. Len(s)) \cup {Len(s) + 1} /\ Len(s) + 1 \notin 1 .. Len(s)
  BY <1>1
<1>3. ToSet(Append(s, e)) = ToSet(s) \cup {e}
  BY <1>1, <1>2 DEF ToSet
<1>4. ASSUME IsInjective(s), e \notin ToSet(s) PROVE IsInjective(Append(s, e))
  BY <1>1, <1>2, <1>4 DEF IsInjective, ToSet
<1> QED BY <1>1, <1>3, <1>4 DEF HowMany

LEMMA TailOf ==
  ASSUME NEW S, NEW s \in Seq(S), s # <<>>
  PROVE  /\ Head(s) \in S /\ Tail(s) \in Seq(S)
         /\ HowMany(s) \in Nat /\ HowMany(Tail(s)) = HowMany(s) - 1
         /\ ToSet(s) = {Head(s)} \cup ToSet(Tail(s))
         /\ IsInjective(s) => IsInjective(Tail(s)) /\ Head(s) \notin ToSet(Tail(s))
<1>1. /\ Head(s) \in S /\ Tail(s) \in Seq(S) /\ Len(s) \in Nat \ {0}
      /\ Len(Tail(s)) = Len(s) - 1 /\ Head(s) = s[1]
      /\ \A i \in 1 .. Len(Tail(s)) : Tail(s)[i] = s[i + 1]
      /\ DOMAIN s = 1 .. Len(s) /\ DOMAIN Tail(s) = 1 .. Len(Tail(s))
  BY HeadTailProperties, LenProperties, EmptySeq
<1>2. ToSet(s) \subseteq {Head(s)} \cup ToSet(Tail(s))
  <2> SUFFICES ASSUME NEW i \in 1 .. Len(s), i # 1 PROVE s[i] \in ToSet(Tail(s))
    BY <1>1 DEF ToSet
  <2>1. i - 1 \in 1 .. Len(Tail(s)) /\ s[i] = Tail(s)[i - 1]
    BY <1>1
  <2> QED BY <1>1, <2>1 DEF ToSet
<1>3. {Head(s)} \cup ToSet(Tail(s)) \subseteq ToSet(s)
  BY <1>1 DEF ToSet
<1>4. ASSUME IsInjective(s) PROVE IsInjective(Tail(s)) /\ Head(s) \notin ToSet(Tail(s))
  BY <1>1, <1>4 DEF IsInjective, ToSet
<1> QED BY <1>1, <1>2, <1>3, <1>4 DEF HowMany

LEMMA EmptyIsInjective == IsInjective(<<>>) /\ ToSet(<<>>) = {} /\ HowMany(<<>>) = 0
BY DEF IsInjective, ToSet, HowMany

LEMMA Counted == ASSUME NEW S, NEW s \in Seq(S) PROVE HowMany(s) \in Nat
BY LenProperties DEF HowMany

(* The last line, once owed, is sent.                                      *)
LEMMA OwedIsSent ==
  ASSUME NEW r, NEW q, NEW n \in Int, r.first \in Int, q.first = r.first,
         HowMany(r.got) \in Nat, HowMany(r.todo) \in Nat,
         HowMany(q.got) = HowMany(r.got) + 1, HowMany(q.todo) = HowMany(r.todo)
  PROVE  MessagesCounted(r, n, TRUE) => MessagesCounted(q, n, FALSE)
<1>1. /\ (IF TRUE THEN n ELSE n + 1) = n /\ (IF FALSE THEN n ELSE n + 1) = n + 1
  OBVIOUS
<1>2. MessagesCounted(r, n, TRUE) <=> HowMany(r.got) + HowMany(r.todo) = n - r.first
  BY <1>1, Zenon DEF MessagesCounted
<1>3. MessagesCounted(q, n, FALSE) <=> HowMany(q.got) + HowMany(q.todo) = (n + 1) - q.first
  BY <1>1, Zenon DEF MessagesCounted
<1>4. \A a, b \in Nat, f \in Int : a + b = n - f => (a + 1) + b = (n + 1) - f
  OBVIOUS
<1>5. ASSUME HowMany(r.got) + HowMany(r.todo) = n - r.first
      PROVE  (HowMany(r.got) + 1) + HowMany(r.todo) = (n + 1) - r.first
  BY <1>4, <1>5, Zenon
<1> QED BY <1>2, <1>3, <1>5, Zenon

(* What a new subscriber is to be sent.                                    *)
LEMMA ReplayedLines ==
  ASSUME BacklogInv, logged \in Nat
  PROVE  /\ Replayed \in Seq(Lines) /\ IsInjective(Replayed)
         /\ HowMany(Replayed) = Len(backlog)
         /\ ToSet(Replayed) = (logged + 1 - Len(backlog)) .. logged
<1> DEFINE n == Len(backlog)
<1>1. n \in Nat /\ n <= logged /\ DOMAIN Replayed = 1 .. n /\ Len(Replayed) = n
  BY LenProperties DEF BacklogInv, Replayed, Reverse
<1>2. \A i \in 1 .. n : Replayed[i] = logged - n + i /\ Replayed[i] \in Lines
  <2> SUFFICES ASSUME NEW i \in 1 .. n
               PROVE  Replayed[i] = logged - n + i /\ Replayed[i] \in Lines
    OBVIOUS
  <2>1. n - i + 1 \in 1 .. n /\ Replayed[i] = backlog[n - i + 1]
    BY <1>1 DEF Replayed, Reverse
  <2>2. backlog[n - i + 1] = logged + 1 - (n - i + 1) /\ backlog[n - i + 1] \in Lines
    BY <2>1, ElementOfSeq DEF BacklogInv
  <2> QED BY <1>1, <2>1, <2>2
<1>3. Replayed \in Seq(Lines)
  <2>1. Replayed = [i \in 1 .. n |-> Replayed[i]]
    BY DEF Replayed, Reverse
  <2> QED BY <1>1, <1>2, <2>1, SeqDef
<1>4. IsInjective(Replayed)
  BY <1>1, <1>2 DEF IsInjective
<1>5. ASSUME NEW k \in (logged + 1 - n) .. logged PROVE k \in ToSet(Replayed)
  <2>1. k - (logged - n) \in 1 .. n /\ Replayed[k - (logged - n)] = k
    BY <1>1, <1>2
  <2> QED BY <1>1, <2>1 DEF ToSet
<1>6. ToSet(Replayed) \subseteq (logged + 1 - n) .. logged
  BY <1>1, <1>2 DEF ToSet
<1> QED BY <1>1, <1>3, <1>4, <1>5, <1>6 DEF HowMany

-----------------------------------------------------------------------------
(* Who owes a line: nobody while logMu is free, its holder otherwise.      *)

LEMMA FreeOwesNothing ==
  ASSUME MutexInv, logMu = "free"
  PROVE  \A w \in Writers : writer[w].step = "idle" /\ writer[w].left = {}
BY LogAssumption DEF MutexInv

LEMMA OnlyTheHolderOwes ==
  ASSUME MutexInv, NEW w \in Writers, writer[w].step # "idle"
  PROVE  /\ logMu = w
         /\ \A v \in Writers \ {w} : writer[v].step = "idle" /\ writer[v].left = {}
BY DEF MutexInv

(* A step of one connection while nobody logs a line.                      *)
LEMMA OneConnection ==
  ASSUME LogInv, NEW c \in Conns, NEW r, conn' = [conn EXCEPT ![c] = r],
         UNCHANGED <<logged, backlog>>, MutexInv',
         \A d \in Conns \ {c} : /\ d \in clients' <=> d \in clients
                                /\ OwesLine(d)' <=> OwesLine(d),
         ConnOK(r, logged, c \in clients', OwesLine(c)')
  PROVE  LogInv'
<1>1. BacklogInv'
  BY DEF LogInv, BacklogInv, Lines
<1>2. DOMAIN conn' = Conns /\ DOMAIN conn = Conns
  BY DEF LogInv, ConnInv
<1>3. ASSUME NEW d \in Conns PROVE ConnOK(conn'[d], logged', d \in clients', OwesLine(d)')
  <2>1. CASE d = c
    BY <2>1, <1>2
  <2>2. CASE d # c
    <3>1. conn'[d] = conn[d] /\ logged' = logged
      BY <2>2, <1>2
    <3>2. ConnOK(conn[d], logged, d \in clients, OwesLine(d))
      BY DEF LogInv, ConnInv
    <3>3. (d \in clients' <=> d \in clients) /\ (OwesLine(d)' <=> OwesLine(d))
      BY <2>2
    <3> QED BY <3>1, <3>2, <3>3, Zenon DEF ConnOK, LinesOK, LinesWhole, MessagesCounted
  <2> QED BY <2>1, <2>2
<1> QED BY <1>1, <1>2, <1>3 DEF LogInv, ConnInv

-----------------------------------------------------------------------------
(* A state and what one action makes of it.                                *)

LEMMA LogInitInv == LogInit => LogInv
<1> SUFFICES ASSUME LogInit PROVE LogInv
  OBVIOUS
<1>1. MutexInv
  BY LogAssumption DEF LogInit, MutexInv, NoWriter
<1>2. BacklogInv
  BY LogAssumption, EmptySeq DEF LogInit, BacklogInv
<1>3. \A c \in Conns : ~OwesLine(c)
  BY DEF LogInit, OwesLine, NoWriter
<1>4. NoConn \in Connection
  BY LogAssumption, EmptySeq DEF NoConn, Connection
<1>5. ASSUME NEW c \in Conns PROVE ConnOK(NoConn, 0, FALSE, FALSE)
  BY <1>4, EmptyIsInjective, SMT
     DEF ConnOK, LinesOK, Connected, LinesApart, LinesWhole, MessagesCounted, NoConn
<1>6. ConnInv
  <2>1. \A c \in Conns : conn[c] = NoConn /\ logged = 0 /\ (c \in clients) = FALSE /\ OwesLine(c) = FALSE
    BY <1>3 DEF LogInit, OwesLine
  <2> QED BY <1>5, <2>1 DEF ConnInv, LogInit
<1> QED BY <1>1, <1>2, <1>6 DEF LogInv

LEMMA ConnectStep ==
  ASSUME LogInv, NEW c \in Conns, Connect(c)
  PROVE  LogInv'
<1> DEFINE r == [NoConn EXCEPT !.step = "replaying", !.todo = Replayed,
                               !.first = logged + 1 - Len(backlog)]
<1>1. MutexInv'
  BY DEF Connect, LogInv, MutexInv
<1>2. \A d \in Conns : (OwesLine(d)' <=> OwesLine(d)) /\ ~OwesLine(d)
  BY FreeOwesNothing DEF Connect, LogInv, OwesLine
<1>3. /\ logged \in Nat /\ logged <= MaxLines
      /\ Len(backlog) \in Nat /\ Len(backlog) <= logged
  BY LogAssumption, LenProperties DEF LogInv, MutexInv, BacklogInv
<1>4. /\ Replayed \in Seq(Lines) /\ IsInjective(Replayed)
      /\ ToSet(Replayed) = (logged + 1 - Len(backlog)) .. logged
      /\ HowMany(Replayed) = Len(backlog)
  BY <1>3, ReplayedLines DEF LogInv
<1>5. /\ r.step = "replaying" /\ r.todo = Replayed /\ r.got = <<>> /\ ~r.writing
      /\ r.torn = {}
      /\ r.first = logged + 1 - Len(backlog) /\ r \in Connection
  <2>1. logged + 1 - Len(backlog) \in 1 .. (MaxLines + 1) /\ <<>> \in Seq(Messages)
    BY <1>3, EmptySeq, LogAssumption
  <2> QED BY <1>4, <2>1 DEF NoConn, Connection
<1>6. ConnOK(r, logged, TRUE, FALSE)
  <2> HIDE DEF r
  <2>1. r.first <= logged + 1 /\ ToSet(Replayed) \subseteq 1 .. logged
    BY <1>3, <1>4, <1>5
  <2>2. ToSet(r.got) \cup ToSet(r.todo) = r.first .. logged
    BY <1>4, <1>5, EmptyIsInjective
  <2>3. LinesOK(r, logged, FALSE)
    BY <1>4, <1>5, <2>1, <2>2, EmptyIsInjective DEF LinesOK, LinesApart, LinesWhole
  <2>4. MessagesCounted(r, logged, FALSE)
    BY <1>3, <1>4, <1>5, EmptyIsInjective DEF MessagesCounted
  <2> QED BY <1>5, <2>1, <2>3, <2>4 DEF ConnOK
<1>7. ConnOK(r, logged, c \in clients', OwesLine(c)')
  <2>1. (c \in clients') = TRUE
    BY DEF Connect
  <2>2. OwesLine(c)' = FALSE
    BY <1>2 DEF OwesLine
  <2> QED BY <1>6, <2>1, <2>2
<1> QED BY <1>1, <1>2, <1>7, OneConnection DEF Connect

(* A step of a subscriber that nobody else takes part in.                  *)
LEMMA OwnStep ==
  ASSUME LogInv, NEW c \in Conns, NEW r, conn' = [conn EXCEPT ![c] = r],
         UNCHANGED <<logMu, logged, backlog, clients, writer>>,
         ConnOK(conn[c], logged, c \in clients, OwesLine(c))
            => ConnOK(r, logged, c \in clients, OwesLine(c))
  PROVE  LogInv'
<1>1. MutexInv'
  BY DEF LogInv, MutexInv
<1>2. \A d \in Conns : (OwesLine(d)' <=> OwesLine(d)) /\ (d \in clients' <=> d \in clients)
  BY DEF OwesLine
<1>3. ConnOK(r, logged, c \in clients', OwesLine(c)')
  BY DEF LogInv, ConnInv, OwesLine
<1> QED BY <1>1, <1>2, <1>3, OneConnection

(* A step that sends the subscriber nothing.                               *)
LEMMA NothingSent ==
  ASSUME NEW r, NEW q, NEW n, NEW registered, NEW owed, ConnOK(r, n, registered, owed),
         q \in Connection, q.got = r.got, q.todo = r.todo, q.first = r.first,
         q.torn = r.torn, q.overlapped = r.overlapped,
         r.step # "away", q.step # "away", q.step = "reading" => q.todo = <<>>,
         q.writing => q.step = "replaying" /\ q.todo # <<>>,
         q.step \in {"replaying", "reading"} /\ q.up
            => r.step \in {"replaying", "reading"} /\ r.up
  PROVE  ConnOK(q, n, registered, owed)
BY DEF ConnOK, LinesOK, Connected, LinesApart, LinesWhole, MessagesCounted

(* Of a connection whose handler has ended nothing is claimed.             *)
LEMMA ClosedOK ==
  ASSUME NEW n \in Nat, NEW registered, NEW owed, owed => n \in Lines
  PROVE  ConnOK(ClosedConn, n, registered, owed)
<1>1. NoConn \in Connection
  BY LogAssumption, EmptySeq DEF NoConn, Connection
<1>2. /\ ClosedConn \in Connection /\ ClosedConn.step = "closed" /\ ~ClosedConn.writing
      /\ ClosedConn.first = 1 /\ ClosedConn.torn = {}
      /\ ClosedConn.got = <<>> /\ ClosedConn.todo = <<>>
  BY <1>1 DEF ClosedConn, NoConn, Connection
<1>3. LinesOK(ClosedConn, n, owed)
  BY <1>2, EmptyIsInjective DEF LinesOK, LinesApart, Connected
<1> QED BY <1>2, <1>3 DEF ConnOK, Connected

LEMMA ReplayBeginsStep ==
  ASSUME LogInv, NEW c \in Conns, ReplayBegins(c)
  PROVE  LogInv'
<1>1. conn' = [conn EXCEPT ![c] = [conn[c] EXCEPT !.writing = TRUE]]
  BY DEF ReplayBegins
<1>2. ASSUME ConnOK(conn[c], logged, c \in clients, OwesLine(c))
      PROVE  ConnOK([conn[c] EXCEPT !.writing = TRUE], logged, c \in clients, OwesLine(c))
  <2> DEFINE q == [conn[c] EXCEPT !.writing = TRUE]
  <2>1. conn[c] \in Connection /\ (conn[c].writing => conn[c].step = "replaying" /\ conn[c].todo # <<>>)
        /\ (conn[c].step = "reading" => conn[c].todo = <<>>)
    BY <1>2 DEF ConnOK
  <2>2. /\ q \in Connection /\ q.got = conn[c].got /\ q.todo = conn[c].todo
        /\ q.first = conn[c].first
        /\ q.torn = conn[c].torn /\ q.overlapped = conn[c].overlapped
        /\ conn[c].step # "away" /\ q.step # "away"
        /\ q.step = "reading" => q.todo = <<>>
        /\ q.writing => q.step = "replaying" /\ q.todo # <<>>
        /\ q.step \in {"replaying", "reading"} /\ q.up
              => conn[c].step \in {"replaying", "reading"} /\ conn[c].up
    BY <2>1 DEF ReplayBegins, Connection
  <2> HIDE DEF q
  <2>3. ConnOK(q, logged, c \in clients, OwesLine(c))
    BY <1>2, <2>2, NothingSent
  <2> QED BY <2>3 DEF q
<1> QED BY <1>1, <1>2, OwnStep DEF ReplayBegins

(* A line of the backlog makes room for a message: that line, unless the   *)
(* write overlapped another.                                               *)
LEMMA ReplayEndsStep ==
  ASSUME LogInv, NEW c \in Conns, ReplayEnds(c)
  PROVE  LogInv'
<1> DEFINE sent(m) == [conn[c] EXCEPT !.got = Append(@, m), !.todo = Tail(@),
                                      !.writing = FALSE, !.torn = {}]
<1>1. PICK m \in Sent(Head(conn[c].todo), conn[c].torn) :
         conn' = [conn EXCEPT ![c] = IF conn[c].up THEN sent(m) ELSE ClosedConn]
  BY DEF ReplayEnds
<1>2. ASSUME ConnOK(conn[c], logged, c \in clients, OwesLine(c))
      PROVE  ConnOK(sent(m), logged, c \in clients, OwesLine(c))
  <2> DEFINE todo == conn[c].todo
             got == conn[c].got
             line == Head(todo)
             q == sent(m)
  <2>1. /\ conn[c] \in Connection /\ conn[c].step = "replaying"
        /\ todo \in Seq(Lines) /\ todo # <<>> /\ got \in Seq(Messages)
        /\ conn[c].torn \subseteq Lines
    BY <1>2 DEF ConnOK, ReplayEnds, Connection
  <2>2. /\ line \in Lines /\ Tail(todo) \in Seq(Lines)
        /\ HowMany(todo) \in Nat /\ HowMany(Tail(todo)) = HowMany(todo) - 1
        /\ ToSet(todo) = {line} \cup ToSet(Tail(todo))
        /\ IsInjective(todo) => IsInjective(Tail(todo)) /\ line \notin ToSet(Tail(todo))
    BY <2>1, TailOf
  <2>3. m \in Messages /\ (conn[c].torn = {} => m = line)
    BY <1>1, <2>1, <2>2 DEF Sent, Messages
  <2>4. /\ Append(got, m) \in Seq(Messages)
        /\ ToSet(Append(got, m)) = ToSet(got) \cup {m}
        /\ HowMany(got) \in Nat /\ HowMany(Append(got, m)) = HowMany(got) + 1
        /\ IsInjective(got) /\ m \notin ToSet(got) => IsInjective(Append(got, m))
    BY <2>1, <2>3, AppendNew
  <2>5. /\ q \in Connection /\ q.step = "replaying" /\ ~q.writing
        /\ q.todo = Tail(todo) /\ q.got = Append(got, m) /\ q.torn = {}
        /\ q.up = conn[c].up /\ q.first = conn[c].first
        /\ q.overlapped = conn[c].overlapped
    BY <2>1, <2>2, <2>4 DEF Connection
  <2> HIDE DEF q
  <2>6. ASSUME ~q.overlapped PROVE LinesOK(q, logged, OwesLine(c))
    <3>1. m = line /\ LinesOK(conn[c], logged, OwesLine(c))
      BY <1>2, <2>3, <2>5, <2>6 DEF ConnOK
    <3>2. ToSet(q.got) \cup ToSet(q.todo) = ToSet(got) \cup ToSet(todo)
      BY <2>2, <2>4, <2>5, <3>1
    <3>3. LinesApart(q, logged)
      BY <2>2, <2>4, <2>5, <3>1, <3>2 DEF LinesOK, LinesApart
    <3> QED BY <2>1, <2>5, <3>1, <3>2, <3>3 DEF LinesOK, LinesWhole, Connected
  <2>7. Connected(q) => c \in clients /\ MessagesCounted(q, logged, OwesLine(c))
    <3>1. Connected(q) => c \in clients /\ MessagesCounted(conn[c], logged, OwesLine(c))
      BY <1>2, <2>1, <2>5 DEF ConnOK, Connected
    <3>2. HowMany(q.got) + HowMany(q.todo) = HowMany(got) + HowMany(todo)
      BY <2>2, <2>4, <2>5
    <3> QED BY <2>5, <3>1, <3>2 DEF MessagesCounted
  <2>8. q.first <= logged + 1 /\ (OwesLine(c) => logged \in Lines)
    BY <1>2, <2>5 DEF ConnOK
  <2>9. ConnOK(q, logged, c \in clients, OwesLine(c))
    BY <2>5, <2>6, <2>7, <2>8 DEF ConnOK
  <2> QED BY <2>9 DEF q
<1>3. ASSUME ConnOK(conn[c], logged, c \in clients, OwesLine(c))
      PROVE  ConnOK(ClosedConn, logged, c \in clients, OwesLine(c))
  <2>1. logged \in Nat /\ (OwesLine(c) => logged \in Lines)
    BY <1>3, LogAssumption DEF ConnOK, LogInv, MutexInv
  <2> QED BY <2>1, ClosedOK
<1> HIDE DEF sent
<1> QED BY <1>1, <1>2, <1>3, OwnStep DEF ReplayEnds

LEMMA ReplayPanicsStep ==
  ASSUME LogInv, NEW c \in Conns, ReplayPanics(c)
  PROVE  LogInv'
<1>1. ASSUME ConnOK(conn[c], logged, c \in clients, OwesLine(c))
      PROVE  ConnOK(ClosedConn, logged, c \in clients, OwesLine(c))
  <2>1. logged \in Nat /\ (OwesLine(c) => logged \in Lines)
    BY <1>1, LogAssumption DEF ConnOK, LogInv, MutexInv
  <2> QED BY <2>1, ClosedOK
<1> QED BY <1>1, OwnStep DEF ReplayPanics

LEMMA ReadsStep ==
  ASSUME LogInv, NEW c \in Conns, Reads(c)
  PROVE  LogInv'
<1>1. conn' = [conn EXCEPT ![c] = [conn[c] EXCEPT !.step = "reading"]]
  BY DEF Reads
<1>2. ASSUME ConnOK(conn[c], logged, c \in clients, OwesLine(c))
      PROVE  ConnOK([conn[c] EXCEPT !.step = "reading"], logged, c \in clients, OwesLine(c))
  <2> DEFINE q == [conn[c] EXCEPT !.step = "reading"]
  <2>1. conn[c] \in Connection /\ (conn[c].writing => conn[c].step = "replaying" /\ conn[c].todo # <<>>)
        /\ (conn[c].step = "reading" => conn[c].todo = <<>>)
    BY <1>2 DEF ConnOK
  <2>2. /\ q \in Connection /\ q.got = conn[c].got /\ q.todo = conn[c].todo
        /\ q.first = conn[c].first
        /\ q.torn = conn[c].torn /\ q.overlapped = conn[c].overlapped
        /\ conn[c].step # "away" /\ q.step # "away"
        /\ q.step = "reading" => q.todo = <<>>
        /\ q.writing => q.step = "replaying" /\ q.todo # <<>>
        /\ q.step \in {"replaying", "reading"} /\ q.up
              => conn[c].step \in {"replaying", "reading"} /\ conn[c].up
    BY <2>1 DEF Reads, Connection
  <2> HIDE DEF q
  <2>3. ConnOK(q, logged, c \in clients, OwesLine(c))
    BY <1>2, <2>2, NothingSent
  <2> QED BY <2>3 DEF q
<1> QED BY <1>1, <1>2, OwnStep DEF Reads

LEMMA PeerLeavesStep ==
  ASSUME LogInv, NEW c \in Conns, PeerLeaves(c)
  PROVE  LogInv'
<1>1. conn' = [conn EXCEPT ![c] = [conn[c] EXCEPT !.up = FALSE]]
  BY DEF PeerLeaves
<1>2. ASSUME ConnOK(conn[c], logged, c \in clients, OwesLine(c))
      PROVE  ConnOK([conn[c] EXCEPT !.up = FALSE], logged, c \in clients, OwesLine(c))
  <2> DEFINE q == [conn[c] EXCEPT !.up = FALSE]
  <2>1. conn[c] \in Connection /\ (conn[c].writing => conn[c].step = "replaying" /\ conn[c].todo # <<>>)
        /\ (conn[c].step = "reading" => conn[c].todo = <<>>)
    BY <1>2 DEF ConnOK
  <2>2. /\ q \in Connection /\ q.got = conn[c].got /\ q.todo = conn[c].todo
        /\ q.first = conn[c].first
        /\ q.torn = conn[c].torn /\ q.overlapped = conn[c].overlapped
        /\ conn[c].step # "away" /\ q.step # "away"
        /\ q.step = "reading" => q.todo = <<>>
        /\ q.writing => q.step = "replaying" /\ q.todo # <<>>
        /\ q.step \in {"replaying", "reading"} /\ q.up
              => conn[c].step \in {"replaying", "reading"} /\ conn[c].up
    BY <2>1 DEF PeerLeaves, Connection
  <2> HIDE DEF q
  <2>3. ConnOK(q, logged, c \in clients, OwesLine(c))
    BY <1>2, <2>2, NothingSent
  <2> QED BY <2>3 DEF q
<1> QED BY <1>1, <1>2, OwnStep DEF PeerLeaves

LEMMA UnregistersStep ==
  ASSUME LogInv, NEW c \in Conns, Unregisters(c)
  PROVE  LogInv'
<1>1. MutexInv'
  BY DEF Unregisters, LogInv, MutexInv
<1>2. \A d \in Conns : (OwesLine(d)' <=> OwesLine(d)) /\ ~OwesLine(d)
  BY FreeOwesNothing DEF Unregisters, LogInv, OwesLine
<1>3. /\ \A d \in Conns \ {c} : d \in clients' <=> d \in clients
      /\ OwesLine(c)' = FALSE /\ logged \in Nat
  BY <1>2, LogAssumption DEF Unregisters, OwesLine, LogInv, MutexInv
<1>4. ConnOK(ClosedConn, logged, c \in clients', OwesLine(c)')
  BY <1>3, ClosedOK
<1> QED BY <1>1, <1>2, <1>3, <1>4, OneConnection DEF Unregisters

(***************************************************************************)
(* A line is logged: it is owed to exactly the registered connections, and *)
(* for the others, which are not up or not connected, nothing is claimed.  *)
(***************************************************************************)
LEMMA FanOutBeginsStep ==
  ASSUME LogInv, NEW w \in Writers, FanOutBegins(w)
  PROVE  LogInv'
<1> DEFINE n == logged
           k == IF Len(backlog) < MaxLogBacklog THEN Len(backlog) + 1 ELSE MaxLogBacklog
           longer == <<n + 1>> \o backlog
<1>1. /\ n \in Nat /\ n < MaxLines /\ n + 1 \in Lines /\ logged' = n + 1
      /\ backlog \in Seq(Lines) /\ Len(backlog) \in Nat
      /\ Len(backlog) <= MaxLogBacklog /\ Len(backlog) <= n
      /\ k \in Nat /\ k <= Len(backlog) + 1 /\ k <= MaxLogBacklog /\ k <= n + 1
  BY LogAssumption, LenProperties DEF LogInv, MutexInv, BacklogInv, FanOutBegins, Lines
<1>2. MutexInv'
  BY <1>1, FreeOwesNothing, LogAssumption DEF FanOutBegins, LogInv, MutexInv
<1>3. BacklogInv'
  <2>1. /\ longer \in Seq(Lines) /\ Len(longer) = Len(backlog) + 1
        /\ \A i \in 1 .. (Len(backlog) + 1) : longer[i] = n + 2 - i
    <3>1. <<n + 1>> \in Seq(Lines) /\ Len(<<n + 1>>) = 1 /\ <<n + 1>>[1] = n + 1
      BY <1>1
    <3>2. /\ longer \in Seq(Lines) /\ Len(longer) = 1 + Len(backlog)
          /\ \A i \in 1 .. (1 + Len(backlog)) :
                longer[i] = IF i <= 1 THEN <<n + 1>>[i] ELSE backlog[i - 1]
      BY <1>1, <3>1, ConcatProperties
    <3>3. \A i \in 1 .. Len(backlog) : backlog[i] = n + 1 - i
      BY DEF LogInv, BacklogInv
    <3>4. ASSUME NEW i \in 1 .. (Len(backlog) + 1) PROVE longer[i] = n + 2 - i
      <4>1. CASE i = 1
        BY <1>1, <3>1, <3>2, <4>1
      <4>2. CASE i # 1
        <5>1. i - 1 \in 1 .. Len(backlog) /\ longer[i] = backlog[i - 1]
          BY <1>1, <3>2, <4>2
        <5>2. backlog[i - 1] = n + 1 - (i - 1)
          BY <3>3, <5>1
        <5> QED BY <1>1, <5>1, <5>2
      <4> QED BY <4>1, <4>2
    <3> QED BY <1>1, <3>2, <3>4
  <2>2. backlog' = SubSeq(longer, 1, k)
    BY DEF FanOutBegins
  <2> HIDE DEF longer, k
  <2>3. \A i \in 1 .. k : longer[i] \in Lines
    BY <1>1, <2>1, ElementOfSeq
  <2>4. /\ backlog' \in Seq(Lines) /\ Len(backlog') = k
        /\ \A i \in 1 .. k : backlog'[i] = longer[i]
    BY <1>1, <2>2, <2>3, SubSeqProperties
  <2>5. \A i \in 1 .. k : backlog'[i] = logged' + 1 - i
    BY <1>1, <2>1, <2>4
  <2> QED BY <1>1, <2>4, <2>5 DEF BacklogInv, Lines
<1>4. \A c \in Conns : OwesLine(c) = FALSE /\ (OwesLine(c)' <=> c \in clients)
  <2>1. writer' = [writer EXCEPT ![w] = [step |-> "fanout", left |-> clients]]
    BY DEF FanOutBegins
  <2>2. \A v \in Writers : writer[v].left = {}
    BY FreeOwesNothing DEF FanOutBegins, LogInv
  <2>3. writer'[w].left = clients /\ \A v \in Writers \ {w} : writer'[v].left = {}
    BY <2>1, <2>2 DEF LogInv, MutexInv
  <2> QED BY <2>2, <2>3 DEF OwesLine
<1>5. ASSUME NEW c \in Conns PROVE ConnOK(conn'[c], logged', c \in clients', OwesLine(c)')
  <2> DEFINE r == conn[c]
             registered == c \in clients
  <2>1. ConnOK(r, n, registered, FALSE)
    BY <1>4 DEF LogInv, ConnInv
  <2>2. r.first \in Nat /\ r.first <= n + 1
    BY <2>1, LogAssumption DEF ConnOK, Connection
  <2>3. ASSUME ~r.overlapped PROVE LinesOK(r, n + 1, registered)
    <3>1. LinesOK(r, n, FALSE) /\ (Connected(r) => registered)
      BY <2>1, <2>3 DEF ConnOK
    <3>2. n + 1 \notin ToSet(r.got) \cup ToSet(r.todo) /\ LinesApart(r, n + 1)
      BY <1>1, <3>1 DEF LinesOK, LinesApart
    <3>3. (r.first .. n) \cup {n + 1} = r.first .. (n + 1)
      BY <1>1, <2>2
    <3>4. Connected(r) => LinesWhole(r, n + 1, registered)
      BY <3>1, <3>3 DEF LinesOK, LinesWhole
    <3> QED BY <3>2, <3>4 DEF LinesOK
  <2>4. Connected(r) => registered /\ MessagesCounted(r, n + 1, registered)
    <3>1. r.got \in Seq(Messages) /\ r.todo \in Seq(Lines)
      BY <2>1 DEF ConnOK, Connection
    <3>2. HowMany(r.got) \in Nat /\ HowMany(r.todo) \in Nat
      BY <3>1, Counted
    <3>3. Connected(r) => registered /\ MessagesCounted(r, n, FALSE)
      BY <2>1 DEF ConnOK
    <3>4. ASSUME Connected(r) PROVE MessagesCounted(r, n + 1, TRUE)
      BY <1>1, <2>2, <3>2, <3>3, <3>4 DEF MessagesCounted
    <3>5. Connected(r) => registered = TRUE
      BY <3>3
    <3> QED BY <3>4, <3>5
  <2> HIDE DEF r, registered
  <2>5. ConnOK(r, n + 1, registered, registered)
    BY <1>1, <2>1, <2>2, <2>3, <2>4 DEF ConnOK
  <2>6. conn'[c] = r /\ (c \in clients' <=> registered) /\ (OwesLine(c)' <=> registered)
    BY <1>4 DEF FanOutBegins, r, registered
  <2> QED BY <1>1, <2>5, <2>6, Zenon DEF ConnOK, LinesOK, LinesWhole, MessagesCounted
<1> QED BY <1>2, <1>3, <1>5 DEF LogInv, ConnInv, FanOutBegins

LEMMA FanOutWritesStep ==
  ASSUME LogInv, NEW w \in Writers, NEW c \in Conns, FanOutWrites(w, c)
  PROVE  LogInv'
<1> DEFINE r == conn[c]
           ok == r.up /\ r.step # "closed"
           sent(m) == [r EXCEPT !.got = Append(@, m),
                                !.torn = IF r.writing THEN @ \cup {logged} ELSE @,
                                !.overlapped = @ \/ r.writing]
           gone == [r EXCEPT !.up = FALSE]
<1>1. PICK m \in Sent(logged, UnderWay(c)) :
         conn' = [conn EXCEPT ![c] = IF ok THEN sent(m) ELSE gone]
  BY DEF FanOutWrites
<1>2. MutexInv'
  BY DEF FanOutWrites, LogInv, MutexInv
<1>3. OwesLine(c) /\ ~OwesLine(c)' /\ \A d \in Conns \ {c} : OwesLine(d)' <=> OwesLine(d)
  <2>1. writer' = [writer EXCEPT ![w].left = @ \ {c}] /\ c \in writer[w].left
    BY DEF FanOutWrites
  <2>2. \A v \in Writers \ {w} : writer[v].left = {} /\ writer'[v] = writer[v]
    BY <2>1, OnlyTheHolderOwes DEF FanOutWrites, LogInv, MutexInv
  <2>3. writer'[w].left = writer[w].left \ {c}
    BY <2>1 DEF LogInv, MutexInv
  <2> QED BY <2>1, <2>2, <2>3 DEF OwesLine
<1>4. /\ ConnOK(r, logged, c \in clients, TRUE) /\ r \in Connection /\ r.step # "away"
      /\ logged \in Lines
  BY <1>3 DEF LogInv, ConnInv, ConnOK
<1>9. m \in Messages /\ (~r.writing => m = logged)
  <2>1. r.writing => Head(r.todo) \in Lines
    BY <1>4, TailOf DEF ConnOK, Connection
  <2> QED BY <1>1, <1>4, <2>1 DEF Sent, UnderWay, Messages
<1>5. ASSUME ok PROVE ConnOK(sent(m), logged, c \in clients, FALSE)
  <2> DEFINE q == sent(m)
  <2>1. /\ Append(r.got, m) \in Seq(Messages)
        /\ ToSet(Append(r.got, m)) = ToSet(r.got) \cup {m}
        /\ HowMany(r.got) \in Nat /\ HowMany(Append(r.got, m)) = HowMany(r.got) + 1
        /\ IsInjective(r.got) /\ m \notin ToSet(r.got) => IsInjective(Append(r.got, m))
        /\ HowMany(r.todo) \in Nat
    BY <1>4, <1>9, AppendNew, Counted DEF Connection
  <2>2. /\ q \in Connection /\ q.got = Append(r.got, m) /\ q.todo = r.todo
        /\ q.step = r.step /\ q.up = r.up /\ q.writing = r.writing
        /\ q.first = r.first /\ q.overlapped = (r.overlapped \/ r.writing)
        /\ q.torn = IF r.writing THEN r.torn \cup {logged} ELSE r.torn
    BY <1>4, <2>1 DEF Connection
  <2> HIDE DEF r, q
  <2>3. ASSUME ~q.overlapped PROVE LinesOK(q, logged, FALSE)
    <3>1. m = logged /\ LinesOK(r, logged, TRUE)
      BY <1>4, <1>9, <2>2, <2>3 DEF ConnOK
    <3>2. LinesApart(q, logged)
      BY <1>4, <2>1, <2>2, <3>1 DEF LinesOK, LinesApart, Lines
    <3>3. LinesWhole(r, logged, TRUE) => LinesWhole(q, logged, FALSE)
      BY <2>1, <2>2, <3>1 DEF LinesWhole
    <3> QED BY <2>2, <3>1, <3>2, <3>3 DEF LinesOK, Connected
  <2>4. Connected(q) => c \in clients /\ MessagesCounted(q, logged, FALSE)
    <3>1. Connected(r) => c \in clients /\ MessagesCounted(r, logged, TRUE)
      BY <1>4 DEF ConnOK
    <3>2. r.first \in Int /\ logged \in Int
      BY <1>4, LogAssumption DEF Connection, Lines
    <3>3. MessagesCounted(r, logged, TRUE) => MessagesCounted(q, logged, FALSE)
      <4>1. /\ HowMany(q.got) = HowMany(r.got) + 1 /\ HowMany(q.todo) = HowMany(r.todo)
            /\ q.first = r.first
        BY <2>1, <2>2
      <4>2. HowMany(r.got) \in Nat /\ HowMany(r.todo) \in Nat
        BY <2>1
      <4> QED BY <3>2, <4>1, <4>2, OwedIsSent
    <3> QED BY <2>2, <3>1, <3>3 DEF Connected
  <2>5. ConnOK(q, logged, c \in clients, FALSE)
    BY <1>4, <2>2, <2>3, <2>4 DEF ConnOK
  <2> QED BY <2>5 DEF q
<1>6. ASSUME NEW registered PROVE ConnOK(gone, logged, registered, FALSE)
  <2>1. /\ gone \in Connection /\ gone.got = r.got /\ gone.todo = r.todo
        /\ gone.step = r.step /\ ~gone.up /\ gone.writing = r.writing
        /\ gone.first = r.first /\ gone.torn = r.torn /\ gone.overlapped = r.overlapped
    BY <1>4 DEF Connection
  <2> HIDE DEF r, gone
  <2>2. ~gone.overlapped => LinesOK(gone, logged, FALSE)
    BY <1>4, <2>1 DEF ConnOK, LinesOK, LinesApart, Connected
  <2> QED BY <1>4, <2>1, <2>2 DEF ConnOK, Connected
<1>7. /\ OwesLine(c)' = FALSE /\ (ok => clients' = clients)
      /\ \A d \in Conns \ {c} : d \in clients' <=> d \in clients
  BY <1>3 DEF FanOutWrites, OwesLine
<1>8. ConnOK(IF ok THEN sent(m) ELSE gone, logged, c \in clients', OwesLine(c)')
  <2> HIDE DEF r, sent, gone, ok
  <2> QED BY <1>5, <1>6, <1>7
<1> HIDE DEF r, sent, gone, ok
<1> QED BY <1>1, <1>2, <1>3, <1>7, <1>8, OneConnection DEF FanOutWrites

(* The goroutine stops where it is, or has written to all: nobody is owed  *)
(* anything else.                                                          *)
LEMMA FanOutStopsStep ==
  ASSUME LogInv, UNCHANGED <<logged, backlog, clients, conn>>, MutexInv',
         \A c \in Conns : OwesLine(c)' <=> OwesLine(c)
  PROVE  LogInv'
<1>1. \A c \in Conns : OwesLine(c)' = OwesLine(c)
  BY DEF OwesLine
<1> QED BY <1>1 DEF LogInv, BacklogInv, ConnInv, Lines

LEMMA FanOutPanicsStep ==
  ASSUME LogInv, NEW w \in Writers, NEW c \in Conns, FanOutPanics(w, c)
  PROVE  LogInv'
<1>1. MutexInv'
  BY DEF FanOutPanics, LogInv, MutexInv
<1>2. \A d \in Conns : OwesLine(d)' <=> OwesLine(d)
  BY DEF FanOutPanics, LogInv, MutexInv, OwesLine
<1> QED BY <1>1, <1>2, FanOutStopsStep DEF FanOutPanics

LEMMA FanOutEndsStep ==
  ASSUME LogInv, NEW w \in Writers, FanOutEnds(w)
  PROVE  LogInv'
<1>1. MutexInv'
  BY LogAssumption DEF FanOutEnds, NoWriter, LogInv, MutexInv
<1>2. \A d \in Conns : OwesLine(d)' <=> OwesLine(d)
  BY DEF FanOutEnds, NoWriter, LogInv, MutexInv, OwesLine
<1> QED BY <1>1, <1>2, FanOutStopsStep DEF FanOutEnds

-----------------------------------------------------------------------------
LEMMA LogStep == LogInv /\ [LogNext]_logVars => LogInv'
<1> SUFFICES ASSUME LogInv, [LogNext]_logVars PROVE LogInv'
  OBVIOUS
<1>1. ASSUME NEW c \in Conns, Connect(c) PROVE LogInv'
  BY <1>1, ConnectStep
<1>2. ASSUME NEW c \in Conns, ReplayBegins(c) PROVE LogInv'
  BY <1>2, ReplayBeginsStep
<1>3. ASSUME NEW c \in Conns, ReplayEnds(c) PROVE LogInv'
  BY <1>3, ReplayEndsStep
<1>4. ASSUME NEW c \in Conns, ReplayPanics(c) PROVE LogInv'
  BY <1>4, ReplayPanicsStep
<1>5. ASSUME NEW c \in Conns, Reads(c) PROVE LogInv'
  BY <1>5, ReadsStep
<1>6. ASSUME NEW c \in Conns, PeerLeaves(c) PROVE LogInv'
  BY <1>6, PeerLeavesStep
<1>7. ASSUME NEW c \in Conns, Unregisters(c) PROVE LogInv'
  BY <1>7, UnregistersStep
<1>8. ASSUME NEW w \in Writers, FanOutBegins(w) PROVE LogInv'
  BY <1>8, FanOutBeginsStep
<1>9. ASSUME NEW w \in Writers, NEW c \in Conns, FanOutWrites(w, c) PROVE LogInv'
  BY <1>9, FanOutWritesStep
<1>10. ASSUME NEW w \in Writers, NEW c \in Conns, FanOutPanics(w, c) PROVE LogInv'
  BY <1>10, FanOutPanicsStep
<1>11. ASSUME NEW w \in Writers, FanOutEnds(w) PROVE LogInv'
  BY <1>11, FanOutEndsStep
<1>12. CASE UNCHANGED logVars
  BY <1>12, FanOutStopsStep DEF logVars, LogInv, MutexInv, OwesLine
<1> QED BY <1>1, <1>2, <1>3, <1>4, <1>5, <1>6, <1>7, <1>8, <1>9, <1>10, <1>11, <1>12
        DEF LogNext

(* Every reachable state of the live log satisfies the inductive invariant. *)
LEMMA LogInvHolds == LogSpec => []LogInv
<1>1. LogInit => LogInv
  BY LogInitInv
<1>2. LogInv /\ [LogNext]_logVars => LogInv'
  BY LogStep
<1> QED BY <1>1, <1>2, PTL DEF LogSpec

LEMMA LogTypes == LogInv => LogTypeOK
<1> SUFFICES ASSUME LogInv PROVE LogTypeOK
  OBVIOUS
<1>1. ASSUME NEW S, NEW s \in Seq(S) PROVE ToSet(s) \subseteq S
  BY LenProperties, ElementOfSeq DEF ToSet
<1>2. \A c \in Conns : conn[c] \in Connection
  BY DEF LogInv, ConnInv, ConnOK
<1>3. \A c \in Conns : /\ ToSet(conn[c].todo) \subseteq Lines
                        /\ ToSet(conn[c].got) \subseteq Messages
  BY <1>1, <1>2 DEF Connection
<1> QED BY <1>1, <1>2, <1>3 DEF LogInv, MutexInv, BacklogInv, LogTypeOK, Connection

(***************************************************************************)
(* The states of the live log (handleLogsSocket and writeEvent) are well   *)
(* typed: the backlog never outgrows its limit and holds only lines that   *)
(* were logged, and only connections are registered.                       *)
(***************************************************************************)
THEOREM LogTypesHold == LogSpec => []LogTypeOK
BY LogInvHolds, LogTypes, PTL

LEMMA NoLineLost == LogInv => EachLineOnce
<1> SUFFICES ASSUME LogInv, NEW c \in Conns
             PROVE  LET caughtUp == conn[c].step = "reading" /\ conn[c].up /\ logMu = "free" IN
                    /\ ~conn[c].overlapped =>
                           /\ IsInjective(conn[c].got)
                           /\ caughtUp => ToSet(conn[c].got) = conn[c].first .. logged
                    /\ caughtUp => Len(conn[c].got) = logged + 1 - conn[c].first
  BY DEF EachLineOnce
<1> DEFINE caughtUp == conn[c].step = "reading" /\ conn[c].up /\ logMu = "free"
<1>1. ConnOK(conn[c], logged, c \in clients, OwesLine(c)) /\ logged \in Nat
  BY LogAssumption DEF LogInv, ConnInv, MutexInv
<1>2. caughtUp => ~OwesLine(c) /\ conn[c].todo = <<>> /\ Connected(conn[c])
  BY <1>1, FreeOwesNothing DEF LogInv, OwesLine, ConnOK, Connected
<1>3. ASSUME ~conn[c].overlapped
      PROVE  /\ IsInjective(conn[c].got)
             /\ caughtUp => ToSet(conn[c].got) = conn[c].first .. logged
  <2>1. LinesOK(conn[c], logged, OwesLine(c))
    BY <1>1, <1>3 DEF ConnOK
  <2>2. caughtUp => LinesWhole(conn[c], logged, OwesLine(c)) /\ ToSet(conn[c].todo) = {}
    BY <1>2, <2>1, EmptyIsInjective DEF LinesOK
  <2> QED BY <1>2, <2>1, <2>2 DEF LinesOK, LinesApart, LinesWhole
<1>4. ASSUME caughtUp PROVE Len(conn[c].got) = logged + 1 - conn[c].first
  <2>1. MessagesCounted(conn[c], logged, FALSE) /\ HowMany(conn[c].todo) = 0
    <3>1. MessagesCounted(conn[c], logged, OwesLine(c)) /\ ~OwesLine(c)
      BY <1>1, <1>2, <1>4 DEF ConnOK
    <3> QED BY <1>2, <1>4, <3>1, EmptyIsInjective DEF MessagesCounted
  <2>2. conn[c].got \in Seq(Messages) /\ conn[c].first \in Int
    BY <1>1, LogAssumption DEF ConnOK, Connection
  <2>3. HowMany(conn[c].got) = logged + 1 - conn[c].first
    BY <1>1, <2>1, <2>2, Counted DEF MessagesCounted
  <2> QED BY <2>3 DEF HowMany
<1> QED BY <1>3, <1>4

(***************************************************************************)
(* A subscriber that is connected and has been sent the backlog was sent   *)
(* as many messages as there are lines from the oldest of that backlog to  *)
(* the last one logged; and unless writeEvent wrote to it in the middle of *)
(* a write of the backlog, these are exactly those lines, each once: none  *)
(* falls between the backlog, which is sent without logMu, and the lines   *)
(* that are written live.                                                  *)
(***************************************************************************)
THEOREM LinesReachReadersOnce == LogSpec => []EachLineOnce
BY LogInvHolds, NoLineLost, PTL

=============================================================================
