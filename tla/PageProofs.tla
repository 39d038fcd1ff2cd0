------------------------------ MODULE PageProofs ------------------------------
(***************************************************************************)
(* What the workspace page does between its user and the server: it        *)
(* launches a run, follows its events, edits its files and prepares its    *)
(* meeting.                                                                *)
(***************************************************************************)
EXTENDS Naturals, Sequences, FiniteSets, SequencesExt, FiniteSetTheorems, TLAPS

CONSTANTS
    Writers, PageSize, MaxEvents, StreamVersions, ReloadBound,
    MayRetry, MayLeave, LateAnswers, NetworkErrors,
    Paths, EditorVersions, NotRead, Conflict,
    Workspaces, Pages, Briefs, Invalid, MountBound,
    Prompts, Files, Lossy, MaxAttachments, MaxSubmissions, MaxRuns, MayExpire,
    None, Pending

VARIABLES
    run, counter, log, txn, conn, client, shown, asked, reloads,   \* the stream
    file, listed, selected, editor, previous, opening, saving,     \* the editor
    meeting, page, briefForm, load, save,                          \* the meeting pages
    attachment, runs, launchForm, launch, intent, records, request,
    pointer, shownRun, restoring                                             \* the launch form

Stream == INSTANCE EventStream WITH Page <- PageSize, MaxVersion <- StreamVersions
Editor == INSTANCE WorkspaceEditor WITH MaxVersion <- EditorVersions
Meeting == INSTANCE Meetings WITH form <- briefForm
Launch == INSTANCE WorkspaceLaunch WITH form <- launchForm, shown <- shownRun

Phases == {"connect", "read", "refresh", "ended", "error", "none"}
Connection == [pc : {"list", "poll", "status", "ended"}, cursor : Nat, pipe : Seq(Nat)]
Client == [phase : Phases, cursor : Nat, last : Nat, got : Seq(Nat)]
OpenAppend == [seq : Nat, type : Stream!Types]

\* The run as the page is told of it.
RunInv ==
    /\ run \in Stream!Runs
    /\ shown \in Stream!Runs \union {None}
    /\ asked \in [Stream!Askers -> Stream!Runs \union {None, Pending}]

\* The row lock: at most one append is open, and the log behind it is complete.
LogInv ==
    /\ log \in Seq(Stream!Types) /\ counter \in 0 .. MaxEvents
    /\ txn \in [Writers -> OpenAppend \union {None}]
    /\ \A v, w \in Writers : txn[v] # None /\ txn[w] # None => v = w
    /\ \A w \in Writers : txn[w] # None => txn[w].seq = Len(log) + 1 /\ counter = Len(log) + 1
    /\ Stream!LockFree => counter = Len(log)

\* A connection is one the browser reads, and what is on its way is what comes
\* next for the browser.
ConnInv ==
    /\ IF client.phase = "read"
       THEN /\ conn \in Connection
            /\ conn.cursor = client.cursor + Len(conn.pipe) /\ conn.cursor <= Len(log)
            /\ \A i \in 1 .. Len(conn.pipe) : conn.pipe[i] = client.cursor + i
       ELSE conn = None
    /\ asked["loop"] # None => client.phase = "refresh"

\* The browser never asks for what lies beyond the events it has.
ClientInv ==
    /\ client \in Client
    /\ client.cursor <= Len(client.got) /\ client.last <= Len(client.got)
    /\ Len(client.got) <= Len(log)
    /\ \A i \in 1 .. Len(client.got) : client.got[i] = i

StreamInv == RunInv /\ LogInv /\ ConnInv /\ ClientInv

-----------------------------------------------------------------------------
(* Sequences that count up *)

LEMMA CountingOn ==
    ASSUME NEW a \in Nat, NEW s \in Seq(Nat), NEW t \in Seq(Nat),
           \A i \in 1 .. Len(s) : s[i] = a + i,
           \A i \in 1 .. Len(t) : t[i] = a + Len(s) + i
    PROVE  /\ s \o t \in Seq(Nat) /\ Len(s \o t) = Len(s) + Len(t)
           /\ \A i \in 1 .. Len(s \o t) : (s \o t)[i] = a + i
<1>1. s \o t \in Seq(Nat) /\ Len(s \o t) = Len(s) + Len(t) /\ Len(s) \in Nat /\ Len(t) \in Nat
  OBVIOUS
<1>2. ASSUME NEW i \in 1 .. Len(s \o t)
      PROVE  (s \o t)[i] = a + i
  <2>1. CASE i <= Len(s)
    <3>1. i \in 1 .. Len(s) /\ (s \o t)[i] = s[i]
      BY <1>1, <2>1
    <3>2. QED
      BY <3>1
  <2>2. CASE i > Len(s)
    <3>1. i - Len(s) \in 1 .. Len(t) /\ (s \o t)[i] = t[i - Len(s)]
      BY <1>1, <2>2
    <3>2. t[i - Len(s)] = a + Len(s) + (i - Len(s))
      BY <3>1
    <3>3. QED
      BY <1>1, <3>1, <3>2
  <2>3. QED
    BY <1>1, <2>1, <2>2
<1>3. QED
  BY <1>1, <1>2

LEMMA CountingTail ==
    ASSUME NEW a \in Nat, NEW s \in Seq(Nat), s # <<>>,
           \A i \in 1 .. Len(s) : s[i] = a + i
    PROVE  /\ Head(s) = a + 1 /\ Tail(s) \in Seq(Nat) /\ Len(Tail(s)) = Len(s) - 1
           /\ Len(s) \in Nat \ {0}
           /\ \A i \in 1 .. Len(Tail(s)) : Tail(s)[i] = a + 1 + i
<1>1. Len(s) \in Nat \ {0} /\ Tail(s) \in Seq(Nat) /\ Len(Tail(s)) = Len(s) - 1
  OBVIOUS
<1>2. Head(s) = s[1] /\ s[1] = a + 1
  BY <1>1
<1>3. ASSUME NEW i \in 1 .. Len(Tail(s))
      PROVE  Tail(s)[i] = a + 1 + i
  <2>1. i + 1 \in 1 .. Len(s) /\ Tail(s)[i] = s[i + 1]
    BY <1>1
  <2>2. s[i + 1] = a + (i + 1)
    BY <2>1
  <2>3. QED
    BY <2>1, <2>2
<1>4. QED
  BY <1>1, <1>2, <1>3

-----------------------------------------------------------------------------
(* What a query returns *)

\* The instance counts as this module does.
LEMMA StreamCounts ==
    ASSUME NEW events
    PROVE  /\ Stream!PageLength(events) =
                IF Cardinality(events) < PageSize THEN Cardinality(events) ELSE PageSize
           /\ \A i : Stream!Nth(events, i) =
                CHOOSE s \in events : Cardinality({t \in events : t <= s}) = i
BY DEF Stream!PageLength, Stream!Nth, Stream!Cardinality, Cardinality

LEMMA EventsAreAnInterval ==
    ASSUME Stream!EventStreamAssumption, log \in Seq(Stream!Types), NEW c \in 0 .. Len(log)
    PROVE  Stream!EventsAfter(c) = (c + 1) .. Len(log)
<1>1. \A s \in 1 .. Len(log) : log[s] # None
  BY DEF Stream!EventStreamAssumption
<1>2. QED
  BY <1>1 DEF Stream!EventsAfter, Stream!Visible

LEMMA NthOfInterval ==
    ASSUME NEW a \in Nat, NEW b \in Nat, a <= b, NEW i \in 1 .. (b - a)
    PROVE  Stream!Nth((a + 1) .. b, i) = a + i
<1> DEFINE events == (a + 1) .. b
<1>1. ASSUME NEW s \in events
      PROVE  Cardinality({t \in events : t <= s}) = s - a
  <2>1. {t \in events : t <= s} = (a + 1) .. s
    OBVIOUS
  <2>2. Cardinality((a + 1) .. s) = s - a
    BY FS_Interval
  <2>3. QED
    BY <2>1, <2>2
<1>2. a + i \in events /\ Cardinality({t \in events : t <= a + i}) = i
  BY <1>1
<1>3. \A s \in events : Cardinality({t \in events : t <= s}) = i => s = a + i
  BY <1>1
<1> HIDE DEF events
<1>4. Stream!Nth(events, i) = a + i
  BY <1>2, <1>3, StreamCounts
<1>5. QED
  BY <1>4 DEF events

\* listRunEventsAfter: while the log has no gap, the next events and no others.
LEMMA PageIsNext ==
    ASSUME Stream!EventStreamAssumption, log \in Seq(Stream!Types), NEW c \in 0 .. Len(log)
    PROVE  \E n \in 0 .. (Len(log) - c) :
              Stream!ListRunEventsAfter(c) = [i \in 1 .. n |-> c + i]
<1> DEFINE events == Stream!EventsAfter(c)
           n == Stream!PageLength(events)
<1>1. events = (c + 1) .. Len(log) /\ Len(log) \in Nat /\ c \in Nat /\ c <= Len(log)
  BY EventsAreAnInterval
<1>2. Cardinality(events) = Len(log) - c
  <2>1. \A a, b \in Nat : a <= b => Cardinality((a + 1) .. b) = b - a
    <3>1. TAKE a, b \in Nat
    <3>2. a + 1 \in Int /\ b \in Int
      OBVIOUS
    <3>3. Cardinality((a + 1) .. b) = IF a + 1 > b THEN 0 ELSE b - (a + 1) + 1
      BY <3>2, FS_Interval
    <3>4. QED
      BY <3>3
  <2>2. QED
    BY <1>1, <2>1
<1>3. n \in 0 .. (Len(log) - c)
  BY <1>1, <1>2, StreamCounts DEF Stream!EventStreamAssumption
<1>4. \A i \in 1 .. n : Stream!Nth(events, i) = c + i
  <2>1. \A i \in 1 .. n : i \in 1 .. (Len(log) - c)
    BY <1>1, <1>3
  <2> HIDE DEF n
  <2>2. QED
    BY <1>1, <2>1, NthOfInterval
<1>5. Stream!ListRunEventsAfter(c) = [i \in 1 .. n |-> Stream!Nth(events, i)]
  BY DEF Stream!ListRunEventsAfter
<1>6. QED
  BY <1>3, <1>4, <1>5

-----------------------------------------------------------------------------
(* The log *)

\* Appending to the log keeps what is in it: Len and the types below are as
\* before, and the commit adds the one open append.
LEMMA WriterKeepsLog ==
    ASSUME Stream!EventStreamAssumption, RunInv, LogInv,
           \/ \E w \in Writers, type \in Stream!Types : Stream!BeginAppend(w, type)
           \/ \E w \in Writers : Stream!CommitAppend(w) \/ Stream!RollbackAppend(w)
    PROVE  LogInv' /\ run' \in Stream!Runs /\ Len(log) <= Len(log')
<1>t. /\ log \in Seq(Stream!Types) /\ Len(log) \in Nat /\ counter \in 0 .. MaxEvents
      /\ txn \in [Writers -> OpenAppend \union {None}] /\ MaxEvents \in Nat
      /\ run \in Stream!Runs
  BY DEF LogInv, RunInv, Stream!EventStreamAssumption
<1>n. None \notin OpenAppend
  BY DEF Stream!EventStreamAssumption, OpenAppend
<1>1. ASSUME NEW w \in Writers, NEW type \in Stream!Types, Stream!BeginAppend(w, type)
      PROVE  LogInv' /\ run' \in Stream!Runs /\ Len(log) <= Len(log')
  <2> DEFINE o == [seq |-> counter + 1, type |-> type]
  <2>1. counter = Len(log) /\ \A v \in Writers : txn[v] = None
    BY <1>1 DEF Stream!BeginAppend, LogInv, Stream!LockFree
  <2>2. /\ counter' = counter + 1 /\ counter < MaxEvents /\ txn' = [txn EXCEPT ![w] = o]
        /\ UNCHANGED <<run, log>>
    BY <1>1 DEF Stream!BeginAppend
  <2>3. o \in OpenAppend /\ o # None /\ o.seq = counter + 1
    BY <1>n, <1>t DEF OpenAppend
  <2> HIDE DEF o
  <2>4. txn' \in [Writers -> OpenAppend \union {None}] /\ txn'[w] = o
        /\ \A v \in Writers \ {w} : txn'[v] = None
    BY <1>t, <2>1, <2>2, <2>3
  <2>5. counter' \in 0 .. MaxEvents /\ counter' = Len(log') + 1
    BY <1>t, <2>1, <2>2
  <2>6. ~ Stream!LockFree'
    BY <2>3, <2>4 DEF Stream!LockFree
  <2>7. \A v \in Writers : txn'[v] # None => v = w
    BY <2>4
  <2>8. \A v \in Writers : txn'[v] # None => txn'[v].seq = Len(log') + 1 /\ counter' = Len(log') + 1
    BY <2>1, <2>2, <2>3, <2>4, <2>5
  <2>9. LogInv'
    BY <1>t, <2>2, <2>4, <2>5, <2>6, <2>7, <2>8 DEF LogInv
  <2>10. QED
    BY <1>t, <2>2, <2>9
<1>2. ASSUME NEW w \in Writers, Stream!CommitAppend(w)
      PROVE  LogInv' /\ run' \in Stream!Runs /\ Len(log) <= Len(log')
  <2> DEFINE n == Len(log) + 1
             l == [s \in 1 .. n |-> IF s = n THEN txn[w].type ELSE log[s]]
  <2>1. /\ txn[w] \in OpenAppend /\ txn[w].type \in Stream!Types /\ txn[w].seq = n
        /\ counter = n
        /\ \A v \in Writers \ {w} : txn[v] = None
    BY <1>2, <1>t DEF Stream!CommitAppend, LogInv, OpenAppend
  <2>2. log' = l
    <3>1. log' = [s \in 1 .. (IF txn[w].seq > Len(log) THEN txn[w].seq ELSE Len(log)) |->
                    IF s = txn[w].seq THEN txn[w].type ELSE IF s \in DOMAIN log THEN log[s] ELSE None]
      BY <1>2 DEF Stream!CommitAppend
    <3>2. (IF txn[w].seq > Len(log) THEN txn[w].seq ELSE Len(log)) = n
      BY <1>t, <2>1
    <3>3. \A s \in 1 .. n : s # n => s \in DOMAIN log
      BY <1>t
    <3>4. QED
      BY <2>1, <3>1, <3>2, <3>3
  <2>3. l \in Seq(Stream!Types) /\ Len(l) = n
    <3>1. n \in Nat
      BY <1>t
    <3>2. \A s \in 1 .. n : (IF s = n THEN txn[w].type ELSE log[s]) \in Stream!Types
      BY <1>t, <2>1
    <3> HIDE DEF n
    <3>3. QED
      BY <3>1, <3>2
  <2>4. run' = [run EXCEPT !.status = Stream!Sets(txn[w].type, run.status)]
        /\ txn' = [txn EXCEPT ![w] = None] /\ UNCHANGED counter
    BY <1>2 DEF Stream!CommitAppend
  <2>5. run.status \in Stream!Statuses
    BY <1>t DEF Stream!Runs
  <2>6. Stream!Sets(txn[w].type, run.status) \in Stream!Statuses
    BY <2>1, <2>5 DEF Stream!Sets, Stream!Types, Stream!Statuses, Stream!Terminal
  <2>7. run' \in Stream!Runs
    BY <1>t, <2>4, <2>6 DEF Stream!Runs
  <2>8. \A v \in Writers : txn'[v] = None
    BY <1>t, <2>1, <2>4
  <2>9. txn' \in [Writers -> OpenAppend \union {None}]
    BY <1>t, <2>4
  <2> HIDE DEF l
  <2>10. log' \in Seq(Stream!Types) /\ Len(log') = n /\ counter' = n
    BY <2>1, <2>2, <2>3, <2>4
  <2>11. LogInv'
    BY <1>t, <2>4, <2>8, <2>9, <2>10 DEF LogInv
  <2>12. QED
    BY <1>t, <2>7, <2>10, <2>11
<1>3. ASSUME NEW w \in Writers, Stream!RollbackAppend(w)
      PROVE  LogInv' /\ run' \in Stream!Runs /\ Len(log) <= Len(log')
  <2>1. /\ counter = Len(log) + 1 /\ \A v \in Writers \ {w} : txn[v] = None
    BY <1>3 DEF Stream!RollbackAppend, LogInv
  <2>2. counter' = counter - 1 /\ txn' = [txn EXCEPT ![w] = None] /\ UNCHANGED <<run, log>>
    BY <1>3 DEF Stream!RollbackAppend
  <2>3. \A v \in Writers : txn'[v] = None
    BY <1>t, <2>1, <2>2
  <2>4. counter' = Len(log') /\ counter' \in 0 .. MaxEvents
    BY <1>t, <2>1, <2>2
  <2>5. txn' \in [Writers -> OpenAppend \union {None}]
    BY <1>t, <2>2
  <2>6. QED
    BY <1>t, <2>2, <2>3, <2>4, <2>5 DEF LogInv
<1>4. QED
  BY <1>1, <1>2, <1>3

\* Everything else leaves the log and its lock alone.
LEMMA OthersKeepLog ==
    ASSUME Stream!EventStreamAssumption, RunInv, LogInv, UNCHANGED <<counter, log, txn>>
    PROVE  LogInv'
BY DEF LogInv, Stream!LockFree

-----------------------------------------------------------------------------
(* The connection and the browser *)

LEMMA WriterKeepsStream ==
    ASSUME Stream!EventStreamAssumption, StreamInv,
           \/ \E w \in Writers, type \in Stream!Types : Stream!BeginAppend(w, type)
           \/ \E w \in Writers : Stream!CommitAppend(w) \/ Stream!RollbackAppend(w)
    PROVE  StreamInv'
<1>1. LogInv' /\ run' \in Stream!Runs /\ Len(log) <= Len(log')
  BY WriterKeepsLog DEF StreamInv
<1>2. UNCHANGED <<conn, client, shown, asked>>
  BY DEF Stream!BeginAppend, Stream!CommitAppend, Stream!RollbackAppend, Stream!page
<1>3. Len(log) \in Nat /\ Len(log') \in Nat
  BY <1>1 DEF StreamInv, LogInv
<1>4. RunInv'
  BY <1>1, <1>2 DEF StreamInv, RunInv
<1>5. ConnInv'
  <2>1. conn \in Connection /\ conn.cursor <= Len(log) => conn.cursor <= Len(log')
    BY <1>1, <1>3 DEF Connection
  <2>2. QED
    BY <1>2, <2>1 DEF StreamInv, ConnInv
<1>6. ClientInv'
  <2>1. Len(client.got) \in Nat
    BY DEF StreamInv, ClientInv, Client
  <2>2. Len(client.got) <= Len(log')
    BY <1>1, <1>3, <2>1 DEF StreamInv, ClientInv
  <2>3. QED
    BY <1>2, <2>2 DEF StreamInv, ClientInv
<1>7. QED
  BY <1>1, <1>4, <1>5, <1>6 DEF StreamInv

\* One query adds the next events to what is on its way.
LEMMA PageKeepsStream ==
    ASSUME Stream!EventStreamAssumption, StreamInv, Stream!StreamPage
    PROVE  StreamInv'
<1> DEFINE c == conn.cursor
           events == Stream!ListRunEventsAfter(c)
           pc == IF Len(events) = PageSize THEN "poll" ELSE "status"
           at == IF events = <<>> THEN c ELSE Last(events)
<1>1. /\ client.phase = "read" /\ conn \in Connection
      /\ c = client.cursor + Len(conn.pipe) /\ c <= Len(log)
      /\ \A i \in 1 .. Len(conn.pipe) : conn.pipe[i] = client.cursor + i
  BY DEF StreamInv, ConnInv, Stream!StreamPage
<1>2. /\ c \in Nat /\ conn.pipe \in Seq(Nat) /\ log \in Seq(Stream!Types) /\ Len(log) \in Nat
      /\ client.cursor \in Nat /\ Len(conn.pipe) \in Nat /\ c \in 0 .. Len(log)
  BY <1>1 DEF StreamInv, LogInv, ClientInv, Client, Connection
<1>3. PICK n \in 0 .. (Len(log) - c) : events = [i \in 1 .. n |-> c + i]
  BY <1>2, PageIsNext
<1>4. events \in Seq(Nat) /\ Len(events) = n /\ \A i \in 1 .. n : events[i] = c + i
  <2>1. n \in Nat /\ \A i \in 1 .. n : c + i \in Nat
    BY <1>2
  <2> HIDE DEF c, events
  <2>2. QED
    BY <1>3, <2>1
<1>5. at = c + n
  <2>1. CASE n = 0
    <3>1. events = <<>>
      BY <1>4, <2>1
    <3>2. QED
      BY <1>2, <2>1, <3>1
  <2>2. CASE n # 0
    <3>1. events # <<>> /\ events[n] = c + n
      BY <1>4, <2>2
    <3>2. QED
      BY <1>4, <3>1 DEF Last
  <2>3. QED
    BY <2>1, <2>2
<1>6. conn' = [conn EXCEPT !.pipe = conn.pipe \o events, !.cursor = at, !.pc = pc]
  BY DEF Stream!StreamPage, Stream!Last, Last
<1>7. UNCHANGED <<run, counter, log, txn, client, shown, asked>>
  BY DEF Stream!StreamPage, Stream!server, Stream!page
<1>8. pc \in {"poll", "status"} /\ at \in Nat /\ at <= Len(log)
  BY <1>2, <1>5
<1> DEFINE pipe == conn.pipe \o events
<1>9. /\ pipe \in Seq(Nat) /\ Len(pipe) = Len(conn.pipe) + n
      /\ \A i \in 1 .. Len(pipe) : pipe[i] = client.cursor + i
  <2>1. \A i \in 1 .. Len(events) : events[i] = client.cursor + Len(conn.pipe) + i
    BY <1>1, <1>4
  <2> HIDE DEF events
  <2>2. QED
    BY <1>1, <1>2, <1>4, <2>1, CountingOn
<1> HIDE DEF pipe, at, pc, events, c
<1>10. /\ conn' \in Connection /\ conn'.pipe = pipe /\ conn'.cursor = at
  BY <1>1, <1>6, <1>8, <1>9 DEF Connection, pipe
<1>11. conn'.cursor = client.cursor + Len(conn'.pipe) /\ conn'.cursor <= Len(log)
  <2>1. c = client.cursor + Len(conn.pipe) /\ c \in Nat /\ n \in Nat
    BY <1>1, <1>2, <1>3
  <2>2. conn'.cursor = c + n /\ Len(conn'.pipe) = Len(conn.pipe) + n
    BY <1>5, <1>9, <1>10
  <2>3. QED
    BY <1>2, <1>8, <1>10, <2>1, <2>2
<1>12. ConnInv'
  BY <1>1, <1>7, <1>9, <1>10, <1>11 DEF StreamInv, ConnInv
<1>13. QED
  BY <1>7, <1>12, OthersKeepLog DEF StreamInv, RunInv, ClientInv

\* The steps of the server that move the connection only.
LEMMA ServerKeepsStream ==
    ASSUME Stream!EventStreamAssumption, StreamInv, Stream!StreamStatus \/ Stream!StreamExpires
    PROVE  StreamInv'
<1>1. client.phase = "read" /\ conn \in Connection
  BY DEF StreamInv, ConnInv, Stream!StreamStatus, Stream!StreamExpires
<1>2. PICK pc \in {"ended", "poll"} : conn' = [conn EXCEPT !.pc = pc]
  BY DEF Stream!StreamStatus, Stream!StreamExpires
<1>3. conn' \in Connection /\ conn'.cursor = conn.cursor /\ conn'.pipe = conn.pipe
  BY <1>1, <1>2 DEF Connection
<1>4. UNCHANGED <<run, counter, log, txn, client, shown, asked>>
  BY DEF Stream!StreamStatus, Stream!StreamExpires, Stream!server, Stream!page
<1>5. ConnInv'
  BY <1>1, <1>3, <1>4 DEF StreamInv, ConnInv
<1>6. QED
  BY <1>4, <1>5, OthersKeepLog DEF StreamInv, RunInv, ClientInv

\* The browser gets the event behind its cursor: it is new exactly when the
\* browser has none beyond the cursor.
LEMMA ReceiveKeepsStream ==
    ASSUME Stream!EventStreamAssumption, StreamInv, Stream!Receive
    PROVE  StreamInv'
<1> DEFINE s == client.cursor + 1
           got == client.got
<1>1. /\ client.phase = "read" /\ conn \in Connection /\ conn.pipe \in Seq(Nat)
      /\ conn.pipe # <<>>
      /\ conn.cursor = client.cursor + Len(conn.pipe) /\ conn.cursor <= Len(log)
      /\ \A i \in 1 .. Len(conn.pipe) : conn.pipe[i] = client.cursor + i
  BY DEF StreamInv, ConnInv, Stream!Receive, Connection
<1>2. /\ client \in Client /\ client.cursor \in Nat /\ client.last \in Nat /\ got \in Seq(Nat)
      /\ Len(got) \in Nat /\ client.cursor <= Len(got) /\ client.last <= Len(got)
      /\ Len(got) <= Len(log) /\ Len(log) \in Nat /\ \A i \in 1 .. Len(got) : got[i] = i
  BY DEF StreamInv, ClientInv, Client, LogInv
<1>3. Head(conn.pipe) = s /\ Len(conn.pipe) \in Nat \ {0}
  BY <1>1, <1>2, CountingTail
<1> DEFINE pipe == Tail(conn.pipe)
<1>4. /\ pipe \in Seq(Nat) /\ Len(pipe) = Len(conn.pipe) - 1
      /\ \A i \in 1 .. Len(pipe) : pipe[i] = s + i
  BY <1>1, <1>2, CountingTail
<1>5. /\ conn' = [conn EXCEPT !.pipe = pipe] /\ Stream!OnEvent(s)
      /\ UNCHANGED <<run, counter, log, txn, shown>>
  <2>1. ~ (s <= client.cursor)
    BY <1>2
  <2>2. QED
    BY <1>3, <2>1 DEF Stream!Receive, Stream!server
<1>6. conn' \in Connection /\ conn'.pipe = pipe /\ conn'.cursor = conn.cursor
  BY <1>1, <1>4, <1>5 DEF Connection
<1> DEFINE last == IF s > client.last THEN s ELSE client.last
           new == IF s \in ToSet(got) THEN got ELSE Append(got, s)
<1>7. client' = [client EXCEPT !.cursor = s, !.last = last, !.got = new]
  BY <1>5 DEF Stream!OnEvent, Stream!ToSet, ToSet
<1>8. s \in Nat /\ s <= Len(log)
  BY <1>1, <1>2, <1>3
<1>9. s \in ToSet(got) <=> s <= Len(got)
  <2>1. s <= Len(got) => got[s] = s /\ s \in 1 .. Len(got)
    BY <1>2, <1>8
  <2>2. s \in ToSet(got) => s \in 1 .. Len(got)
    BY <1>2 DEF ToSet
  <2>3. QED
    BY <1>2, <2>1, <2>2 DEF ToSet
<1>10. /\ new \in Seq(Nat) /\ Len(new) \in Nat /\ Len(got) <= Len(new) /\ s <= Len(new)
       /\ Len(new) <= Len(log) /\ \A i \in 1 .. Len(new) : new[i] = i
  <2>1. CASE s <= Len(got)
    BY <1>2, <1>9, <2>1
  <2>2. CASE ~ (s <= Len(got))
    <3>1. new = Append(got, s) /\ s = Len(got) + 1
      BY <1>2, <1>9, <2>2
    <3> HIDE DEF new, s, got
    <3>2. new \in Seq(Nat) /\ Len(new) = s
      BY <1>2, <1>8, <3>1
    <3>3. \A i \in 1 .. Len(new) : new[i] = i
      BY <1>2, <1>8, <3>1, <3>2
    <3>4. QED
      BY <1>2, <1>8, <3>1, <3>2, <3>3
  <2>3. QED
    BY <2>1, <2>2
<1>11. last \in Nat /\ last <= Len(new)
  <2> HIDE DEF new, s, got
  <2>1. QED
    BY <1>2, <1>8, <1>10
<1> HIDE DEF new, last, s, got, pipe
<1>12. /\ client' \in Client /\ client'.cursor = s /\ client'.last = last /\ client'.got = new
       /\ client'.phase = "read"
  BY <1>1, <1>2, <1>7, <1>8, <1>10, <1>11 DEF Client
<1>13. ClientInv'
  BY <1>5, <1>10, <1>11, <1>12 DEF ClientInv
<1>14. /\ asked' \in [Stream!Askers -> Stream!Runs \union {None, Pending}]
       /\ asked'["loop"] = asked["loop"]
  <2>1. asked' = asked \/ \E e \in {"event1", "event2"} : asked' = [asked EXCEPT ![e] = Pending]
    BY <1>5 DEF Stream!OnEvent, Stream!Ask
  <2>2. QED
    BY <2>1 DEF StreamInv, RunInv, Stream!Askers
<1>15. ConnInv'
  <2>1. conn'.cursor = client'.cursor + Len(conn'.pipe)
    <3>1. conn'.cursor = client.cursor + Len(conn.pipe) /\ client'.cursor = client.cursor + 1
          /\ Len(conn'.pipe) = Len(conn.pipe) - 1
      BY <1>1, <1>4, <1>6, <1>12 DEF s
    <3>2. Len(conn.pipe) \in Nat /\ client.cursor \in Nat
      BY <1>2, <1>3
    <3>3. QED
      BY <3>1, <3>2
  <2>2. asked["loop"] = None
    BY <1>1 DEF StreamInv, ConnInv
  <2>3. QED
    BY <1>1, <1>4, <1>5, <1>6, <1>12, <1>14, <2>1, <2>2 DEF ConnInv
<1>16. QED
  BY <1>5, <1>13, <1>14, <1>15, OthersKeepLog DEF StreamInv, RunInv

\* A connection begins behind the cursor, with nothing on its way.
LEMMA ConnectKeepsStream ==
    ASSUME Stream!EventStreamAssumption, StreamInv, Stream!Connect
    PROVE  StreamInv'
<1>1. /\ client.phase = "connect" /\ client \in Client /\ client.cursor \in Nat
      /\ client.cursor <= Len(client.got) /\ Len(client.got) <= Len(log)
      /\ Len(client.got) \in Nat /\ Len(log) \in Nat
  BY DEF StreamInv, ClientInv, LogInv, Client, Stream!Connect
<1>2. /\ conn' = [pc |-> "list", cursor |-> client.cursor, pipe |-> <<>>]
      /\ client' = [client EXCEPT !.phase = "read"]
      /\ UNCHANGED <<run, counter, log, txn, shown, asked>>
  BY DEF Stream!Connect, Stream!server
<1>3. conn' \in Connection /\ conn'.cursor = client.cursor /\ conn'.pipe = <<>>
  BY <1>1, <1>2 DEF Connection
<1>4. /\ client' \in Client /\ client'.phase = "read" /\ client'.cursor = client.cursor
      /\ client'.last = client.last /\ client'.got = client.got
  BY <1>1, <1>2 DEF Client, Phases
<1>5. asked["loop"] = None
  BY <1>1 DEF StreamInv, ConnInv
<1>6. ConnInv'
  <2>1. conn'.cursor = client'.cursor + Len(conn'.pipe) /\ conn'.cursor <= Len(log')
        /\ 1 .. Len(conn'.pipe) = {}
    BY <1>1, <1>2, <1>3, <1>4
  <2>2. QED
    BY <1>2, <1>3, <1>4, <1>5, <2>1 DEF ConnInv
<1>7. ClientInv'
  BY <1>2, <1>4 DEF StreamInv, ClientInv
<1>8. QED
  BY <1>2, <1>6, <1>7, OthersKeepLog DEF StreamInv, RunInv

\* The steps that leave the page without a connection: what the page has of the
\* log is what it had, or nothing.
LEMMA ClosedKeepsStream ==
    ASSUME Stream!EventStreamAssumption, StreamInv, UNCHANGED <<run, counter, log, txn>>, RunInv',
           conn' = None, client' \in Client, client'.phase # "read",
           asked'["loop"] # None => client'.phase = "refresh",
           \/ /\ client'.got = client.got /\ client'.last = client.last
              /\ client'.cursor \in {client.cursor, client.last}
           \/ client'.got = <<>> /\ client'.cursor = 0 /\ client'.last = 0
    PROVE  StreamInv'
<1>1. ConnInv'
  BY DEF ConnInv
<1>2. Len(log) \in Nat
  BY DEF StreamInv, LogInv
<1>3. ClientInv'
  <2>1. CASE client'.got = <<>> /\ client'.cursor = 0 /\ client'.last = 0
    <3>1. Len(client'.got) = 0 /\ 1 .. Len(client'.got) = {}
      BY <2>1
    <3>2. QED
      BY <1>2, <2>1, <3>1 DEF ClientInv
  <2>2. CASE /\ client'.got = client.got /\ client'.last = client.last
             /\ client'.cursor \in {client.cursor, client.last}
    BY <2>2 DEF StreamInv, ClientInv
  <2>3. QED
    BY <2>1, <2>2
<1>4. LogInv'
  BY OthersKeepLog DEF StreamInv
<1>5. QED
  BY <1>1, <1>3, <1>4 DEF StreamInv

LEMMA ClosesKeepsStream ==
    ASSUME Stream!EventStreamAssumption, StreamInv, Stream!StreamCloses \/ Stream!StreamFails
    PROVE  StreamInv'
<1>1. /\ client \in Client /\ asked \in [Stream!Askers -> Stream!Runs \union {None, Pending}]
      /\ run \in Stream!Runs /\ shown \in Stream!Runs \union {None}
  BY DEF StreamInv, ClientInv, RunInv
<1>2. /\ conn' = None /\ UNCHANGED <<run, counter, log, txn, shown>>
      /\ \/ client' = [client EXCEPT !.phase = "refresh"] /\ asked' = [asked EXCEPT !["loop"] = Pending]
         \/ client' = [client EXCEPT !.phase = "error"] /\ asked' = [asked EXCEPT !["loop"] = None]
  BY DEF Stream!StreamCloses, Stream!StreamFails, Stream!server, Stream!Ask
<1>3. /\ client' \in Client /\ client'.phase \in {"refresh", "error"}
      /\ client'.got = client.got
      /\ client'.last = client.last /\ client'.cursor = client.cursor
      /\ (client'.phase = "error" => asked'["loop"] = None)
  BY <1>1, <1>2 DEF Client, Phases, Stream!Askers
<1>4. RunInv'
  BY <1>1, <1>2 DEF RunInv
<1>5. QED
  BY <1>2, <1>3, <1>4, ClosedKeepsStream

\* The answer of a request reaches the page.  The loop asks only while it has no
\* connection, and a page that shows no run has none either.
LEMMA DeliverKeepsStream ==
    ASSUME Stream!EventStreamAssumption, StreamInv, NEW who \in Stream!Askers, Stream!Deliver(who)
    PROVE  StreamInv'
<1> DEFINE latest == IF asked[who] = Pending THEN run ELSE asked[who]
           done == [asked EXCEPT ![who] = None]
<1>1. /\ client \in Client /\ asked \in [Stream!Askers -> Stream!Runs \union {None, Pending}]
      /\ run \in Stream!Runs /\ asked[who] # None
  BY DEF StreamInv, ClientInv, RunInv, Stream!Deliver
<1>2. latest \in Stream!Runs
  BY <1>1
<1>3. done \in [Stream!Askers -> Stream!Runs \union {None, Pending}]
  BY <1>1
<1>4. shown' = latest /\ UNCHANGED <<run, counter, log, txn, conn>>
  BY DEF Stream!Deliver, Stream!server
<1>5. CASE who # "loop"
  <2>1. asked' = done /\ client' = [client EXCEPT !.phase = IF @ = "none" THEN "connect" ELSE @]
    BY <1>5 DEF Stream!Deliver
  <2>2. asked'["loop"] = asked["loop"]
    BY <1>1, <1>5, <2>1 DEF Stream!Askers
  <2>3. RunInv'
    BY <1>1, <1>2, <1>3, <1>4, <2>1 DEF RunInv
  <2>4. CASE client.phase = "none"
    <3>1. client' = [client EXCEPT !.phase = "connect"]
      BY <2>1, <2>4
    <3>2. /\ client' \in Client /\ client'.phase = "connect" /\ client'.got = client.got
          /\ client'.last = client.last /\ client'.cursor = client.cursor
      BY <1>1, <3>1 DEF Client, Phases
    <3>3. conn' = None /\ asked'["loop"] = None
      BY <1>4, <2>2, <2>4 DEF StreamInv, ConnInv
    <3>4. QED
      BY <1>4, <2>3, <3>2, <3>3, ClosedKeepsStream
  <2>5. CASE client.phase # "none"
    <3>1. client' = client
      BY <1>1, <2>1, <2>5 DEF Client
    <3>2. ConnInv' /\ ClientInv'
      BY <1>4, <2>2, <3>1 DEF StreamInv, ConnInv, ClientInv
    <3>3. QED
      BY <1>4, <2>3, <3>2, OthersKeepLog DEF StreamInv
  <2>6. QED
    BY <2>4, <2>5
<1>6. CASE who = "loop"
  <2>1. client.phase = "refresh" /\ conn' = None
    BY <1>1, <1>4, <1>6 DEF StreamInv, ConnInv
  <2>2. PICK phase \in {"ended", "connect"} : client' = [client EXCEPT !.phase = phase]
    BY <1>6 DEF Stream!Deliver
  <2>3. asked' = done \/ asked' = [done EXCEPT !["end"] = Pending]
    BY <1>6 DEF Stream!Deliver
  <2>4. /\ asked' \in [Stream!Askers -> Stream!Runs \union {None, Pending}]
        /\ asked'["loop"] = None
    <3>1. done["loop"] = None
      BY <1>1, <1>6
    <3> HIDE DEF done
    <3>2. QED
      BY <1>3, <2>3, <3>1 DEF Stream!Askers
  <2>5. RunInv'
    BY <1>1, <1>2, <1>4, <2>4 DEF RunInv
  <2>6. /\ client' \in Client /\ client'.phase \in {"ended", "connect"}
        /\ client'.got = client.got
        /\ client'.last = client.last /\ client'.cursor = client.cursor
    BY <1>1, <2>2 DEF Client, Phases
  <2>7. QED
    BY <1>4, <2>1, <2>4, <2>5, <2>6, ClosedKeepsStream
<1>7. QED
  BY <1>5, <1>6

\* The API's reads, and what the user does to the run itself, leave the stream.
LEMMA RunStepsKeepStream ==
    ASSUME Stream!EventStreamAssumption, StreamInv,
           (\E who \in Stream!Askers : Stream!ReadRun(who)) \/ Stream!ControlElsewhere \/ Stream!Retry
    PROVE  StreamInv'
<1>1. /\ asked \in [Stream!Askers -> Stream!Runs \union {None, Pending}] /\ run \in Stream!Runs
      /\ shown \in Stream!Runs \union {None} /\ StreamVersions \in Nat
  BY DEF StreamInv, RunInv, Stream!EventStreamAssumption
<1>2. UNCHANGED <<counter, log, txn, conn, client>>
  BY DEF Stream!ReadRun, Stream!ControlElsewhere, Stream!Retry, Stream!server, Stream!page
<1>3. ASSUME NEW status \in Stream!Statuses, run.version < StreamVersions
      PROVE  [status |-> status, version |-> run.version + 1] \in Stream!Runs
  <2>1. run.version \in 0 .. StreamVersions
    BY <1>1 DEF Stream!Runs
  <2>2. run.version + 1 \in 0 .. StreamVersions
    BY <1>1, <1>3, <2>1
  <2>3. QED
    BY <2>2 DEF Stream!Runs
<1>4. RunInv' /\ (asked'["loop"] # None => asked["loop"] # None)
  <2>1. CASE \E who \in Stream!Askers : Stream!ReadRun(who)
    <3>1. PICK who \in Stream!Askers : Stream!ReadRun(who)
      BY <2>1
    <3>2. /\ asked[who] = Pending /\ asked' = [asked EXCEPT ![who] = run]
          /\ UNCHANGED <<run, shown>>
      BY <3>1 DEF Stream!ReadRun, Stream!server
    <3>3. asked' \in [Stream!Askers -> Stream!Runs \union {None, Pending}]
      BY <1>1, <3>2
    <3>4. asked'["loop"] # None => asked["loop"] # None
      BY <1>1, <3>2 DEF Stream!EventStreamAssumption
    <3>5. QED
      BY <1>1, <3>2, <3>3, <3>4 DEF RunInv
  <2>2. CASE Stream!ControlElsewhere
    <3>1. UNCHANGED <<asked, shown>>
      BY <2>2 DEF Stream!ControlElsewhere, Stream!page
    <3>2. run' \in Stream!Runs
      BY <1>3, <2>2 DEF Stream!ControlElsewhere
    <3>3. QED
      BY <1>1, <3>1, <3>2 DEF RunInv
  <2>3. CASE Stream!Retry
    <3>1. "PENDING" \in Stream!Statuses /\ "action" \in Stream!Askers /\ "loop" # "action"
      BY DEF Stream!Statuses, Stream!Askers
    <3>2. run' \in Stream!Runs
      BY <1>1, <1>3, <2>3, <3>1 DEF Stream!Retry
    <3>3. shown' \in {shown, run, run'} /\ (asked' = asked \/ asked' = [asked EXCEPT !["action"] = run'])
      BY <2>3 DEF Stream!Retry
    <3>4. /\ asked' \in [Stream!Askers -> Stream!Runs \union {None, Pending}]
          /\ asked'["loop"] = asked["loop"]
      BY <1>1, <3>1, <3>2, <3>3 DEF Stream!Askers
    <3>5. QED
      BY <1>1, <3>2, <3>3, <3>4 DEF RunInv
  <2>4. QED
    BY <2>1, <2>2, <2>3
<1>5. ConnInv' /\ ClientInv'
  BY <1>2, <1>4 DEF StreamInv, ConnInv, ClientInv
<1>6. QED
  BY <1>2, <1>4, <1>5, OthersKeepLog DEF StreamInv

\* A restart goes on behind the last event; a reload and a new project begin anew.
LEMMA UserKeepsStream ==
    ASSUME Stream!EventStreamAssumption, StreamInv, Stream!RestartStream \/ Stream!Reload \/ Stream!StartNewProject
    PROVE  StreamInv'
<1>1. /\ client \in Client /\ asked \in [Stream!Askers -> Stream!Runs \union {None, Pending}]
      /\ run \in Stream!Runs /\ shown \in Stream!Runs \union {None}
  BY DEF StreamInv, ClientInv, RunInv
<1>2. conn' = None /\ UNCHANGED <<run, counter, log, txn>>
  BY DEF Stream!RestartStream, Stream!Reload, Stream!StartNewProject, Stream!server
<1>3. /\ shown' \in {shown, run, None}
      /\ asked' = [asked EXCEPT !["loop"] = None] \/ asked' = [a \in Stream!Askers |-> None]
  BY DEF Stream!RestartStream, Stream!Reload, Stream!StartNewProject
<1>4. RunInv' /\ asked'["loop"] = None
  BY <1>1, <1>2, <1>3 DEF RunInv, Stream!Askers
<1>5. CASE Stream!RestartStream
  <2>1. client' = [client EXCEPT !.phase = "connect", !.cursor = client.last]
    BY <1>5 DEF Stream!RestartStream
  <2>2. /\ client' \in Client /\ client'.phase = "connect" /\ client'.got = client.got
        /\ client'.last = client.last /\ client'.cursor = client.last
    BY <1>1, <2>1 DEF Client, Phases
  <2>3. QED
    BY <1>2, <1>4, <2>2, ClosedKeepsStream
<1>6. CASE Stream!Reload \/ Stream!StartNewProject
  <2>1. PICK phase \in {"connect", "none"} :
            client' = [phase |-> phase, cursor |-> 0, last |-> 0, got |-> <<>>]
    BY <1>6 DEF Stream!Reload, Stream!StartNewProject
  <2>2. /\ client' \in Client /\ client'.phase # "read" /\ client'.got = <<>>
        /\ client'.last = 0 /\ client'.cursor = 0
    BY <2>1 DEF Client, Phases
  <2>3. QED
    BY <1>2, <1>4, <2>2, ClosedKeepsStream
<1>7. QED
  BY <1>5, <1>6

-----------------------------------------------------------------------------
(* The specification *)

LEMMA InitStream == ASSUME Stream!EventStreamAssumption, Stream!Init PROVE StreamInv
<1>1. run \in Stream!Runs
  <2>1. run = [status |-> "PENDING", version |-> 0] /\ 0 \in 0 .. StreamVersions
    BY DEF Stream!Init, Stream!EventStreamAssumption
  <2>2. QED
    BY <2>1 DEF Stream!Runs, Stream!Statuses
<1>2. RunInv
  BY <1>1 DEF Stream!Init, RunInv
<1>3. LogInv
  BY DEF Stream!Init, LogInv, Stream!EventStreamAssumption
<1>4. client \in Client /\ client.phase = "connect" /\ client.cursor = 0 /\ client.last = 0
      /\ client.got = <<>>
  BY DEF Stream!Init, Client, Phases
<1>5. ConnInv
  BY <1>4 DEF Stream!Init, ConnInv, Stream!Askers
<1>6. ClientInv
  <2>1. Len(client.got) = 0 /\ Len(log) = 0
    BY <1>4 DEF Stream!Init
  <2>2. QED
    BY <1>4, <2>1 DEF ClientInv
<1>7. QED
  BY <1>2, <1>3, <1>5, <1>6 DEF StreamInv

LEMMA NextKeepsStream ==
    ASSUME Stream!EventStreamAssumption, StreamInv, [Stream!Next]_(Stream!vars)
    PROVE  StreamInv'
<1>1. CASE \/ \E w \in Writers, type \in Stream!Types : Stream!BeginAppend(w, type)
           \/ \E w \in Writers : Stream!CommitAppend(w) \/ Stream!RollbackAppend(w)
  BY <1>1, WriterKeepsStream
<1>2. CASE Stream!StreamPage
  BY <1>2, PageKeepsStream
<1>3. CASE Stream!StreamStatus \/ Stream!StreamExpires
  BY <1>3, ServerKeepsStream
<1>4. CASE Stream!Connect
  BY <1>4, ConnectKeepsStream
<1>5. CASE Stream!Receive
  BY <1>5, ReceiveKeepsStream
<1>6. CASE Stream!StreamCloses \/ Stream!StreamFails
  BY <1>6, ClosesKeepsStream
<1>7. CASE \E who \in Stream!Askers : Stream!Deliver(who)
  BY <1>7, DeliverKeepsStream
<1>8. CASE (\E who \in Stream!Askers : Stream!ReadRun(who)) \/ Stream!ControlElsewhere \/ Stream!Retry
  BY <1>8, RunStepsKeepStream
<1>9. CASE Stream!RestartStream \/ Stream!Reload \/ Stream!StartNewProject
  BY <1>9, UserKeepsStream
<1>10. CASE UNCHANGED Stream!vars
  BY <1>10, OthersKeepLog
  DEF StreamInv, RunInv, ConnInv, ClientInv, Stream!vars, Stream!server, Stream!page
<1>11. QED
  BY <1>1, <1>2, <1>3, <1>4, <1>5, <1>6, <1>7, <1>8, <1>9, <1>10 DEF Stream!Next,
     Stream!StreamNext

LEMMA StreamInvHolds == ASSUME Stream!EventStreamAssumption PROVE Stream!Spec => []StreamInv
BY InitStream, NextKeepsStream, PTL DEF Stream!Spec

LEMMA StreamInvTypes == ASSUME Stream!EventStreamAssumption, StreamInv PROVE Stream!TypeOK
<1>1. run \in Stream!Runs /\ shown \in Stream!Runs \union {None} /\ counter \in 0 .. MaxEvents
      /\ \A a \in Stream!Askers : asked[a] \in Stream!Runs \union {None, Pending}
  BY DEF StreamInv, RunInv, LogInv
<1>2. \A w \in Writers : txn[w] = None \/ txn[w].seq \in 1 .. MaxEvents
  <2>1. Len(log) \in Nat /\ counter \in 0 .. MaxEvents /\ MaxEvents \in Nat
    BY DEF StreamInv, LogInv, Stream!EventStreamAssumption
  <2>2. \A w \in Writers : txn[w] # None => txn[w].seq = Len(log) + 1 /\ counter = Len(log) + 1
    BY DEF StreamInv, LogInv
  <2>3. QED
    BY <2>1, <2>2
<1>3. conn = None \/ (conn.pc \in {"list", "poll", "status", "ended"} /\ conn.cursor \in 0 .. Len(log))
  BY DEF StreamInv, LogInv, ConnInv, Connection
<1>4. /\ client.phase \in Phases /\ client.cursor \in Nat /\ client.last \in Nat
      /\ client.got \in Seq(Nat) /\ Len(client.got) \in Nat /\ Len(client.got) <= Len(log)
      /\ client.cursor <= Len(client.got) /\ client.last <= Len(client.got)
      /\ log \in Seq(Stream!Types) /\ Len(log) \in Nat
      /\ \A i \in 1 .. Len(client.got) : client.got[i] = i
  BY DEF StreamInv, ClientInv, Client, LogInv
<1>5. client.cursor \in 0 .. Len(log) /\ client.last \in 0 .. Len(log)
  BY <1>4
<1>6. ToSet(client.got) \subseteq DOMAIN log
  BY <1>4 DEF ToSet
<1>7. QED
  BY <1>1, <1>2, <1>3, <1>4, <1>5, <1>6 DEF Stream!TypeOK, Phases, Stream!ToSet, ToSet

\* Every variable keeps its shape, and neither the cursor of the connection nor
\* the browser's is ahead of the committed log.
THEOREM StreamTypeCorrect ==
    ASSUME Stream!EventStreamAssumption
    PROVE  Stream!Spec => []Stream!TypeOK
BY StreamInvTypes, StreamInvHolds, PTL

LEMMA StreamInvIsGapless == StreamInv => Stream!GaplessReplay
BY DEF StreamInv, ClientInv, Client, Stream!GaplessReplay

\* appendEvent, listRunEventsAfter and Last-Event-ID together, for any page size
\* and any number of writers, reconnects, restarts and reloads: the page's events
\* are 1, 2, 3 ... without a gap, a duplicate or a swap.
THEOREM GaplessReplayHolds ==
    ASSUME Stream!EventStreamAssumption
    PROVE  Stream!Spec => []Stream!GaplessReplay
BY StreamInvIsGapless, StreamInvHolds, PTL

-----------------------------------------------------------------------------
Revisions == [path : Paths, version : Nat, content : Editor!Contents]
Opening == [version : Nat, latest : Revisions \union {None},
            previous : Editor!Contents \union {None, NotRead}]
Saving == [path : Paths, value : Editor!Contents, expected : Nat, over : Editor!Contents,
           answer : Revisions \union {None, Conflict}]

\* A revision that exists, with its content.
Exists(r) ==
    /\ r.version \in 1 .. Editor!Version(r.path)
    /\ r.content = file[r.path][r.version]

EditorTypes ==
    /\ file \in [Paths -> Seq(Editor!Contents)] /\ listed \in [Paths -> Nat]
    /\ \A p \in Paths : Editor!Version(p) \in 1 .. EditorVersions /\ listed[p] \in 1 .. Editor!Version(p)
    /\ selected \in Revisions \union {None}
    /\ editor \in Editor!Contents \union {None} /\ previous \in Editor!Contents \union {None}
    /\ opening \in [Paths -> Opening \union {None}]
    /\ saving \in Saving \union {None}

\* Whatever the page was answered is a revision that exists.
AnswersExist ==
    /\ selected # None => Exists(selected)
    /\ \A p \in Paths : opening[p] # None /\ opening[p].latest # None => Exists(opening[p].latest)
    /\ saving # None /\ saving.answer \notin {None, Conflict} => Exists(saving.answer)

\* The editor holds what is shown, or what was typed over it.
EditorFollows ==
    selected # None =>
        editor \in {selected.content, Editor!Content(selected.path, selected.version, "user")}

\* A save carries what was typed over the version it expects.
SaveIsOver == saving # None => saving.value = Editor!Content(saving.path, saving.expected, "user")

EditorInv == EditorTypes /\ AnswersExist /\ EditorFollows /\ SaveIsOver /\ Editor!NoRevisionIsOverwritten

-----------------------------------------------------------------------------
LEMMA ContentType ==
    \A p \in Paths, base \in 0 .. EditorVersions, by \in {"agent", "user"} :
        Editor!Content(p, base, by) \in Editor!Contents
BY DEF Editor!Content, Editor!Contents

\* Appending a revision keeps those below it, in this file and the others.
LEMMA AppendKeeps ==
    ASSUME EditorTypes, Editor!WorkspaceEditorAssumption,
           NEW p \in Paths, NEW c \in Editor!Contents, Editor!Version(p) < EditorVersions,
           file' = [file EXCEPT ![p] = Append(@, c)], UNCHANGED listed
    PROVE  /\ file' \in [Paths -> Seq(Editor!Contents)]
           /\ \A q \in Paths : Editor!Version(q)' \in 1 .. EditorVersions /\ listed'[q] \in 1 .. Editor!Version(q)'
           /\ \A q \in Paths : \A v \in 1 .. Editor!Version(q) :
                 v \in 1 .. Editor!Version(q)' /\ file'[q][v] = file[q][v]
           /\ \A q \in Paths : \A v \in 1 .. Editor!Version(q)' :
                 v \in 1 .. Editor!Version(q) \/ (q = p /\ v = Editor!Version(p) + 1 /\ file'[q][v] = c)
<1>t. file \in [Paths -> Seq(Editor!Contents)] /\ file[p] \in Seq(Editor!Contents)
      /\ \A q \in Paths : Len(file[q]) \in 1 .. EditorVersions /\ listed[q] \in 1 .. Len(file[q])
  BY DEF EditorTypes, Editor!Version
<1>1. /\ Append(file[p], c) \in Seq(Editor!Contents)
      /\ Len(Append(file[p], c)) = Len(file[p]) + 1
      /\ Append(file[p], c)[Len(file[p]) + 1] = c
      /\ \A v \in 1 .. Len(file[p]) : Append(file[p], c)[v] = file[p][v]
  BY <1>t
<1>2. file'[p] = Append(file[p], c) /\ \A q \in Paths \ {p} : file'[q] = file[q]
  BY <1>t
<1>3. file' \in [Paths -> Seq(Editor!Contents)]
  BY <1>t, <1>1
<1>4. \A q \in Paths : Len(file'[q]) \in 1 .. EditorVersions /\ listed'[q] \in 1 .. Len(file'[q])
  <2>1. Len(file'[p]) \in 1 .. EditorVersions /\ listed'[p] \in 1 .. Len(file'[p])
    BY <1>1, <1>2, <1>t DEF Editor!Version, Editor!WorkspaceEditorAssumption
  <2>2. QED
    BY <1>2, <1>t, <2>1
<1>5. \A q \in Paths : \A v \in 1 .. Len(file[q]) :
        v \in 1 .. Len(file'[q]) /\ file'[q][v] = file[q][v]
  BY <1>1, <1>2, <1>t
<1>6. \A q \in Paths : \A v \in 1 .. Len(file'[q]) :
        v \in 1 .. Len(file[q]) \/ (q = p /\ v = Len(file[p]) + 1 /\ file'[q][v] = c)
  <2>1. ASSUME NEW v \in 1 .. Len(file'[p]), v \notin 1 .. Len(file[p])
        PROVE  v = Len(file[p]) + 1
    BY <1>1, <1>2, <1>t, <2>1
  <2>2. QED
    BY <1>1, <1>2, <2>1
<1>7. QED
  BY <1>3, <1>4, <1>5, <1>6 DEF Editor!Version

\* So does every revision that was answered.
LEMMA AppendKeepsExists ==
    ASSUME EditorTypes, Editor!WorkspaceEditorAssumption,
           NEW p \in Paths, NEW c \in Editor!Contents, Editor!Version(p) < EditorVersions,
           file' = [file EXCEPT ![p] = Append(@, c)], UNCHANGED listed,
           NEW r \in Revisions, Exists(r)
    PROVE  r.version \in 1 .. Len(file'[r.path]) /\ r.content = file'[r.path][r.version]
<1>1. r.path \in Paths
  BY DEF Revisions
<1>2. QED
  BY <1>1, AppendKeeps DEF Exists, Editor!Version

\* A revision whose author is a user, appended, was typed right below.
LEMMA AppendKeepsHistory ==
    ASSUME EditorTypes, Editor!WorkspaceEditorAssumption, Editor!NoRevisionIsOverwritten,
           NEW p \in Paths, NEW c \in Editor!Contents, Editor!Version(p) < EditorVersions,
           file' = [file EXCEPT ![p] = Append(@, c)], UNCHANGED listed,
           c.by = "user" => c.path = p /\ c.base = Editor!Version(p)
    PROVE  Editor!NoRevisionIsOverwritten'
<1>1. Editor!Version(p) \in Nat
  BY DEF EditorTypes
<1>2. \A q \in Paths : \A v \in 1 .. Editor!Version(q) : file'[q][v] = file[q][v]
  BY AppendKeeps
<1>3. \A q \in Paths : \A v \in 1 .. Editor!Version(q)' :
        v \in 1 .. Editor!Version(q) \/ (q = p /\ v = Editor!Version(p) + 1 /\ file'[q][v] = c)
  BY AppendKeeps
<1>4. ASSUME NEW q \in Paths, NEW v \in 1 .. Editor!Version(q)', file'[q][v].by = "user"
      PROVE  file'[q][v].path = q /\ file'[q][v].base = v - 1
  <2>1. CASE v \in 1 .. Editor!Version(q)
    <3>1. file[q][v].by = "user"
      BY <1>2, <1>4, <2>1
    <3>2. file[q][v].path = q /\ file[q][v].base = v - 1
      BY <2>1, <3>1 DEF Editor!NoRevisionIsOverwritten
    <3>3. file'[q][v] = file[q][v]
      BY <1>2, <2>1
    <3>4. QED
      BY <3>2, <3>3
  <2>2. CASE q = p /\ v = Editor!Version(p) + 1 /\ file'[q][v] = c
    <3>1. c.by = "user"
      BY <1>4, <2>2
    <3>2. c.path = p /\ c.base = Editor!Version(p)
      BY <3>1
    <3>3. v - 1 = Editor!Version(p)
      BY <1>1, <2>2
    <3>4. QED
      BY <2>2, <3>2, <3>3
  <2>3. QED
    BY <1>3, <2>1, <2>2
<1>5. QED
  BY <1>4 DEF Editor!NoRevisionIsOverwritten

LEMMA LatestExists ==
    ASSUME EditorTypes, NEW p \in Paths
    PROVE  Editor!Latest(p) \in Revisions /\ Exists(Editor!Latest(p))
<1>1. /\ file[p] \in Seq(Editor!Contents) /\ Editor!Version(p) \in 1 .. Len(file[p])
      /\ Editor!Version(p) \in Nat
  BY DEF EditorTypes, Editor!Version
<1>2. file[p][Editor!Version(p)] \in Editor!Contents
  BY <1>1
<1>3. QED
  BY <1>1, <1>2 DEF Editor!Latest, Revisions, Exists, Editor!Version

-----------------------------------------------------------------------------
(* The steps *)

LEMMA ServerKeepsEditor ==
    ASSUME Editor!WorkspaceEditorAssumption, EditorInv,
           \/ \E p \in Paths : Editor!AgentWrites(p)
           \/ Editor!PutProjectFile
    PROVE  EditorInv'
<1> USE DEF EditorInv
<1>n. \A p \in Paths : Editor!Version(p) \in Nat /\ Editor!Version(p) \in 0 .. EditorVersions
  <2>1. \A n \in 1 .. EditorVersions : n \in Nat /\ n \in 0 .. EditorVersions
    BY DEF Editor!WorkspaceEditorAssumption
  <2>2. QED
    BY <2>1 DEF EditorTypes
\* What an append does, the saving of the page aside.
<1>a. ASSUME NEW p \in Paths, NEW c \in Editor!Contents, Editor!Version(p) < EditorVersions,
             file' = [file EXCEPT ![p] = Append(@, c)],
             UNCHANGED <<listed, selected, editor, previous, opening>>,
             c.by = "user" => c.path = p /\ c.base = Editor!Version(p),
             saving' \in Saving \union {None}, SaveIsOver',
             saving' # None /\ saving'.answer \notin {None, Conflict} =>
                \/ saving # None /\ saving.answer = saving'.answer
                \/ /\ saving'.answer.version \in 1 .. Len(file'[saving'.answer.path])
                   /\ saving'.answer.content = file'[saving'.answer.path][saving'.answer.version]
      PROVE  EditorInv'
  <2>1. EditorTypes'
    BY <1>a, AppendKeeps DEF EditorTypes
  <2>2. \A r \in Revisions : Exists(r) =>
           r.version \in 1 .. Len(file'[r.path]) /\ r.content = file'[r.path][r.version]
    BY <1>a, AppendKeepsExists
  <2>3. (selected # None => Exists(selected))'
    BY <1>a, <2>2 DEF EditorTypes, AnswersExist, Exists, Editor!Version
  <2>4. (\A q \in Paths : opening[q] # None /\ opening[q].latest # None => Exists(opening[q].latest))'
    <3>1. ASSUME NEW q \in Paths, opening[q] # None, opening[q].latest # None
          PROVE  opening[q].latest \in Revisions /\ Exists(opening[q].latest)
      BY <3>1 DEF EditorTypes, AnswersExist, Opening
    <3>2. QED
      BY <1>a, <2>2, <3>1 DEF Exists, Editor!Version
  <2>5. (saving # None /\ saving.answer \notin {None, Conflict} => Exists(saving.answer))'
    <3>1. ASSUME saving # None, saving.answer \notin {None, Conflict}
          PROVE  saving.answer \in Revisions /\ Exists(saving.answer)
      BY <3>1 DEF EditorTypes, AnswersExist, Saving
    <3>2. QED
      BY <1>a, <2>2, <3>1 DEF Exists, Editor!Version
  <2>6. AnswersExist'
    BY <2>3, <2>4, <2>5 DEF AnswersExist
  <2>7. Editor!NoRevisionIsOverwritten'
    BY <1>a, AppendKeepsHistory
  <2>8. EditorFollows'
    BY <1>a DEF EditorFollows
  <2>9. QED
    BY <1>a, <2>1, <2>6, <2>7, <2>8
<1>1. ASSUME NEW p \in Paths, Editor!AgentWrites(p)
      PROVE  EditorInv'
  <2> DEFINE c == Editor!Content(p, Editor!Version(p), "agent")
  <2>1. c \in Editor!Contents /\ c.by = "agent"
    BY <1>n, ContentType DEF Editor!Content
  <2>2. /\ Editor!Version(p) < EditorVersions /\ file' = [file EXCEPT ![p] = Append(@, c)]
        /\ UNCHANGED <<listed, selected, editor, previous, opening, saving>>
    BY <1>1 DEF Editor!AgentWrites
  <2>3. SaveIsOver' /\ saving' \in Saving \union {None}
    BY <2>2 DEF SaveIsOver, EditorTypes
  <2> HIDE DEF c
  <2>4. c.by # "user"
    BY <2>1
  <2>5. QED
    BY <1>a, <2>1, <2>2, <2>3, <2>4
<1>2. CASE Editor!PutProjectFile
  <2> DEFINE p == saving.path
             r == [path |-> p, version |-> Editor!Version(p) + 1, content |-> saving.value]
  <2>1. /\ saving \in Saving /\ p \in Paths /\ saving.value \in Editor!Contents
        /\ saving.value = Editor!Content(p, saving.expected, "user")
    BY <1>2 DEF Editor!PutProjectFile, EditorTypes, Saving, SaveIsOver
  <2>2. CASE Editor!Accepts(p, saving.expected)
    <3>1. /\ Editor!Version(p) < EditorVersions
          /\ file' = [file EXCEPT ![p] = Append(@, saving.value)]
          /\ saving' = [saving EXCEPT !.answer = r]
          /\ UNCHANGED <<listed, selected, editor, previous, opening>>
      BY <1>2, <2>2 DEF Editor!PutProjectFile
    <3>2. saving.value.by = "user" => saving.value.path = p /\ saving.value.base = Editor!Version(p)
      BY <2>1, <2>2 DEF Editor!Content, Editor!Accepts
    <3>3. Editor!Version(p) + 1 \in Nat
      BY <1>n, <2>1
    <3>4. r \in Revisions
      BY <2>1, <3>3 DEF Revisions
    <3>5. r.version \in 1 .. Len(file'[p]) /\ r.content = file'[p][r.version]
      BY <1>n, <2>1, <3>1 DEF EditorTypes, Editor!Version
    <3>7. /\ saving' \in Saving /\ saving'.answer = r /\ saving'.path = p
          /\ saving'.value = saving.value /\ saving'.expected = saving.expected
      BY <2>1, <3>1, <3>4 DEF Saving
    <3>8. SaveIsOver'
      BY <2>1, <3>7 DEF SaveIsOver
    <3>9. QED
      <4> HIDE DEF r
      <4>1. saving'.answer.path = p
        BY <3>7 DEF r
      <4>2. saving' \in Saving \union {None} /\ saving.value \in Editor!Contents
        BY <2>1, <3>7
      <4>3. /\ saving'.answer.version \in 1 .. Len(file'[saving'.answer.path])
            /\ saving'.answer.content = file'[saving'.answer.path][saving'.answer.version]
        BY <3>5, <3>7, <4>1
      <4>4. QED
        BY <1>a, <2>1, <3>1, <3>2, <3>8, <4>2, <4>3
  <2>3. CASE ~ Editor!Accepts(p, saving.expected)
    <3>1. /\ saving' = [saving EXCEPT !.answer = Conflict]
          /\ UNCHANGED <<file, listed, selected, editor, previous, opening>>
      BY <1>2, <2>3 DEF Editor!PutProjectFile
    <3>2. /\ saving' \in Saving /\ saving'.answer = Conflict /\ saving'.path = p
          /\ saving'.value = saving.value /\ saving'.expected = saving.expected
      BY <2>1, <3>1 DEF Saving
    <3>3. EditorTypes' /\ Editor!NoRevisionIsOverwritten' /\ EditorFollows'
      BY <3>1, <3>2 DEF EditorTypes, Editor!Version, Editor!NoRevisionIsOverwritten,
         EditorFollows
    <3>4. AnswersExist' /\ SaveIsOver'
      BY <2>1, <3>1, <3>2 DEF AnswersExist, SaveIsOver, Exists, Editor!Version
    <3>5. QED
      BY <3>3, <3>4
  <2>4. QED
    BY <2>2, <2>3
<1>3. QED
  BY <1>1, <1>2

\* The page's own steps leave the files alone.
LEMMA PageKeepsEditor ==
    ASSUME Editor!WorkspaceEditorAssumption, EditorInv,
           \/ Editor!RefreshFiles \/ Editor!Type \/ Editor!SaveFile \/ Editor!SaveAnswered \/ Editor!CloseFile
           \/ \E p \in Paths : \/ Editor!OpenFile(p) \/ Editor!ReadLatest(p) \/ Editor!ReadPrevious(p)
                               \/ Editor!ShowFile(p) \/ Editor!OpenFails(p)
    PROVE  EditorInv'
<1> USE DEF EditorInv
<1>f. UNCHANGED file
  BY DEF Editor!RefreshFiles, Editor!Type, Editor!SaveFile, Editor!SaveAnswered,
     Editor!CloseFile, Editor!OpenFile, Editor!ReadLatest,
         Editor!ReadPrevious, Editor!ShowFile, Editor!OpenFails
<1>h. Editor!NoRevisionIsOverwritten'
  BY <1>f DEF Editor!NoRevisionIsOverwritten, Editor!Version
<1>e. \A r : Exists(r) => Exists(r)'
  BY <1>f DEF Exists, Editor!Version
<1>t. /\ file \in [Paths -> Seq(Editor!Contents)] /\ listed \in [Paths -> Nat]
      /\ \A p \in Paths : Editor!Version(p) \in 1 .. EditorVersions /\ listed[p] \in 1 .. Editor!Version(p)
      /\ selected \in Revisions \union {None}
      /\ editor \in Editor!Contents \union {None} /\ previous \in Editor!Contents \union {None}
      /\ opening \in [Paths -> Opening \union {None}]
      /\ saving \in Saving \union {None}
  BY DEF EditorTypes
<1>l. Editor!Listing \in [Paths -> Nat] /\ \A p \in Paths : Editor!Listing[p] \in 1 .. Editor!Version(p)
  BY <1>t DEF Editor!Listing
<1>x. /\ selected # None => Exists(selected)
      /\ \A p \in Paths : opening[p] # None /\ opening[p].latest # None => Exists(opening[p].latest)
      /\ saving # None /\ saving.answer \notin {None, Conflict} => Exists(saving.answer)
  BY DEF AnswersExist
\* The list, the editor and the save, without the requests that open files.
<1>a. ASSUME UNCHANGED <<file, opening>>,
             listed' \in [Paths -> Nat], \A p \in Paths : listed'[p] \in 1 .. Editor!Version(p),
             selected' \in Revisions \union {None}, selected' # None => Exists(selected'),
             editor' \in Editor!Contents \union {None}, previous' \in Editor!Contents \union {None},
             EditorFollows',
             saving' \in Saving \union {None},
             saving' # None /\ saving'.answer \notin {None, Conflict} => Exists(saving'.answer),
             SaveIsOver'
      PROVE  EditorInv'
  <2>1. EditorTypes'
    BY <1>a, <1>t DEF EditorTypes, Editor!Version
  <2>2. AnswersExist'
    BY <1>a, <1>x, <1>e DEF AnswersExist
  <2>3. QED
    BY <1>a, <1>h, <2>1, <2>2
<1>b. EditorFollows /\ SaveIsOver
  OBVIOUS
<1>1. CASE Editor!RefreshFiles
  BY <1>1, <1>a, <1>b, <1>l, <1>t, <1>x DEF Editor!RefreshFiles, EditorFollows, SaveIsOver
<1>2. CASE Editor!Type
  <2>1. /\ selected \in Revisions /\ selected.path \in Paths
        /\ selected.version \in 0 .. EditorVersions
    <3>1. selected \in Revisions /\ selected.version \in 1 .. Editor!Version(selected.path)
          /\ selected.path \in Paths
      BY <1>2, <1>t, <1>x DEF Editor!Type, Revisions, Exists
    <3>2. QED
      BY <1>t, <3>1 DEF Editor!WorkspaceEditorAssumption
  <2>2. editor' \in Editor!Contents
    BY <1>2, <2>1, ContentType DEF Editor!Type
  <2>3. EditorFollows'
    BY <1>2 DEF Editor!Type, EditorFollows
  <2>4. SaveIsOver'
    BY <1>2, <1>b DEF Editor!Type, SaveIsOver
  <2>5. QED
    BY <1>2, <1>a, <1>t, <1>x, <2>2, <2>3, <2>4 DEF Editor!Type
<1>3. CASE Editor!SaveFile
  <2>1. /\ selected \in Revisions /\ selected.content \in Editor!Contents
        /\ selected.path \in Paths
        /\ selected.version \in Nat
    BY <1>3, <1>t DEF Editor!SaveFile, Revisions
  <2>2. editor = Editor!Content(selected.path, selected.version, "user")
    BY <1>3, <1>b DEF Editor!SaveFile, EditorFollows
  <2>3. editor \in Editor!Contents
    <3>1. selected.version \in 1 .. Editor!Version(selected.path)
      BY <1>3, <1>x DEF Editor!SaveFile, Exists
    <3>2. selected.version \in 0 .. EditorVersions
      BY <1>t, <2>1, <3>1 DEF Editor!WorkspaceEditorAssumption
    <3>3. QED
      BY <2>1, <2>2, <3>2, ContentType
  <2>4. saving' = [path |-> selected.path, value |-> editor, expected |-> selected.version,
                   over |-> selected.content, answer |-> None]
    BY <1>3 DEF Editor!SaveFile, Editor!ExpectedVersion
  <2>5. saving' \in Saving /\ saving'.answer = None
    BY <2>1, <2>3, <2>4 DEF Saving
  <2>6. SaveIsOver'
    BY <2>2, <2>4 DEF SaveIsOver
  <2>7. EditorFollows'
    BY <1>3, <1>b DEF Editor!SaveFile, EditorFollows
  <2>8. QED
    BY <1>3, <1>a, <1>t, <1>x, <2>5, <2>6, <2>7 DEF Editor!SaveFile
<1>4. CASE Editor!SaveAnswered
  <2>1. saving' = None /\ UNCHANGED <<file, opening>> /\ saving \in Saving
        /\ saving.answer \in Revisions \union {Conflict} /\ saving.over \in Editor!Contents
    BY <1>4, <1>t DEF Editor!SaveAnswered, Saving
  <2>2. SaveIsOver'
    BY <2>1 DEF SaveIsOver
  <2>3. CASE UNCHANGED <<selected, editor, previous, listed>>
    <3>1. EditorFollows'
      BY <1>b, <2>3 DEF EditorFollows
    <3>2. QED
      BY <1>a, <1>t, <1>x, <2>1, <2>2, <2>3, <3>1
  <2>4. CASE /\ saving.answer # Conflict /\ Editor!ShowSaved
             /\ listed' \in {Editor!Listing, listed}
    <3>1. saving.answer \in Revisions /\ saving.answer.content \in Editor!Contents
      BY <2>1, <2>4 DEF Revisions
    <3>2. Exists(saving.answer)
      BY <1>4, <1>x, <2>4 DEF Editor!SaveAnswered
    <3>3. EditorFollows'
      BY <2>4 DEF Editor!ShowSaved, EditorFollows
    <3>4. listed' \in [Paths -> Nat] /\ \A p \in Paths : listed'[p] \in 1 .. Editor!Version(p)
      BY <1>l, <1>t, <2>4
    <3>5. /\ selected' \in Revisions /\ editor' \in Editor!Contents
          /\ previous' \in Editor!Contents /\ Exists(selected')
      BY <2>1, <2>4, <3>1, <3>2 DEF Editor!ShowSaved
    <3>6. QED
      BY <1>a, <2>1, <2>2, <3>3, <3>4, <3>5
  <2>5. QED
    BY <1>4, <2>3, <2>4 DEF Editor!SaveAnswered
<1>5. CASE Editor!CloseFile
  <2>1. EditorFollows' /\ SaveIsOver'
    BY <1>5, <1>b DEF Editor!CloseFile, EditorFollows, SaveIsOver
  <2>2. QED
    BY <1>5, <1>a, <1>t, <1>x, <2>1 DEF Editor!CloseFile
\* A request that opens a file, answered in parts.
<1>c. ASSUME NEW p \in Paths, NEW o \in Opening \union {None}, opening' = [opening EXCEPT ![p] = o],
             o # None /\ o.latest # None => Exists(o.latest),
             UNCHANGED <<file, listed, selected, editor, previous, saving>>
      PROVE  EditorInv'
  <2>1. opening' \in [Paths -> Opening \union {None}]
    BY <1>c, <1>t
  <2>2. EditorTypes'
    BY <1>c, <1>t, <2>1 DEF EditorTypes, Editor!Version
  <2>3. AnswersExist'
    <3>1. \A q \in Paths : opening'[q] # None /\ opening'[q].latest # None => Exists(opening'[q].latest)
      BY <1>c, <1>t, <1>x
    <3>2. QED
      BY <1>c, <1>x, <1>e, <3>1 DEF AnswersExist
  <2>4. QED
    BY <1>c, <1>h, <2>2, <2>3 DEF EditorFollows, SaveIsOver
<1>6. ASSUME NEW p \in Paths, Editor!OpenFile(p)
      PROVE  EditorInv'
  <2> DEFINE o == [version |-> listed[p], latest |-> None,
                   previous |-> IF listed[p] > 1 THEN NotRead ELSE None]
  <2>1. o \in Opening /\ o.latest = None
    BY <1>t DEF Opening
  <2>2. QED
    BY <1>6, <1>c, <2>1 DEF Editor!OpenFile
<1>7. ASSUME NEW p \in Paths, Editor!ReadLatest(p)
      PROVE  EditorInv'
  <2> DEFINE o == [opening[p] EXCEPT !.latest = Editor!Latest(p)]
  <2>1. opening[p] \in Opening
    BY <1>7, <1>t DEF Editor!ReadLatest
  <2>2. o \in Opening /\ o.latest = Editor!Latest(p)
    BY <2>1, LatestExists DEF Opening
  <2>3. opening' = [opening EXCEPT ![p] = o]
    BY <1>7 DEF Editor!ReadLatest
  <2> HIDE DEF o
  <2>4. QED
    BY <1>7, <1>c, <2>2, <2>3, LatestExists DEF Editor!ReadLatest
<1>8. ASSUME NEW p \in Paths, Editor!ReadPrevious(p)
      PROVE  EditorInv'
  <2> DEFINE c == Editor!Revision(p, opening[p].version - 1)
             o == [opening[p] EXCEPT !.previous = c]
  <2>1. opening[p] \in Opening
    BY <1>8, <1>t DEF Editor!ReadPrevious
  <2>2. c \in Editor!Contents \union {None}
    <3>1. file[p] \in Seq(Editor!Contents)
      BY <1>t
    <3>2. \A v \in DOMAIN file[p] : file[p][v] \in Editor!Contents
      BY <3>1
    <3>3. QED
      BY <3>2 DEF Editor!Revision
  <2> HIDE DEF c
  <2>3. o \in Opening /\ o.latest = opening[p].latest
    BY <2>1, <2>2 DEF Opening
  <2>4. opening' = [opening EXCEPT ![p] = o]
    BY <1>8 DEF Editor!ReadPrevious, c
  <2> HIDE DEF o
  <2>5. opening[p].latest # None => Exists(opening[p].latest)
    BY <1>8, <1>x DEF Editor!ReadPrevious
  <2>6. QED
    BY <1>8, <1>c, <2>3, <2>4, <2>5 DEF Editor!ReadPrevious
<1>9. ASSUME NEW p \in Paths, Editor!ShowFile(p)
      PROVE  EditorInv'
  <2> DEFINE r == opening[p].latest
  <2>1. opening[p] \in Opening /\ r \in Revisions /\ r.content \in Editor!Contents
        /\ opening[p].previous \in Editor!Contents \union {None} /\ Exists(r)
    BY <1>9, <1>t, <1>x DEF Editor!ShowFile, Opening, Revisions
  <2>2. /\ selected' = r /\ editor' = r.content /\ previous' \in Editor!Contents \union {None}
        /\ opening' = [opening EXCEPT ![p] = None] /\ UNCHANGED <<file, listed, saving>>
    BY <1>9, <2>1 DEF Editor!ShowFile
  <2> HIDE DEF r
  <2>3. opening' \in [Paths -> Opening \union {None}]
    BY <1>t, <2>2
  <2>4. EditorTypes'
    BY <1>t, <2>1, <2>2, <2>3 DEF EditorTypes, Editor!Version
  <2>5. AnswersExist'
    <3>1. \A q \in Paths : opening'[q] # None => opening'[q] = opening[q]
      BY <1>t, <2>2
    <3>2. QED
      BY <1>e, <1>x, <2>1, <2>2, <3>1 DEF AnswersExist
  <2>6. QED
    BY <1>b, <1>h, <2>2, <2>4, <2>5 DEF EditorFollows, SaveIsOver
<1>10. ASSUME NEW p \in Paths, Editor!OpenFails(p)
       PROVE  EditorInv'
  BY <1>10, <1>c DEF Editor!OpenFails
<1>11. QED
  BY <1>1, <1>2, <1>3, <1>4, <1>5, <1>6, <1>7, <1>8, <1>9, <1>10

LEMMA NextKeepsEditor ==
    ASSUME Editor!WorkspaceEditorAssumption, EditorInv, [Editor!Next]_(Editor!vars)
    PROVE  EditorInv'
<1>1. CASE Editor!Next
  BY <1>1, ServerKeepsEditor, PageKeepsEditor DEF Editor!Next
<1>2. CASE UNCHANGED Editor!vars
  BY <1>2 DEF Editor!vars, EditorInv, EditorTypes, AnswersExist, Exists, EditorFollows,
     SaveIsOver,
              Editor!NoRevisionIsOverwritten, Editor!Version
<1>3. QED
  BY <1>1, <1>2

LEMMA InitEditor ==
    ASSUME Editor!WorkspaceEditorAssumption, Editor!Init
    PROVE  EditorInv
<1>1. \A p \in Paths : Editor!Content(p, 0, "agent") \in Editor!Contents /\ Editor!Content(p, 0, "agent").by = "agent"
  <2>1. 0 \in 0 .. EditorVersions
    BY DEF Editor!WorkspaceEditorAssumption
  <2>2. QED
    BY <2>1, ContentType DEF Editor!Content
<1>2. \A p \in Paths : /\ file[p] = <<Editor!Content(p, 0, "agent")>> /\ file[p] \in Seq(Editor!Contents)
                       /\ Len(file[p]) = 1 /\ file[p][1] = Editor!Content(p, 0, "agent")
  <2>1. \A c \in Editor!Contents : <<c>> \in Seq(Editor!Contents) /\ Len(<<c>>) = 1 /\ <<c>>[1] = c
    OBVIOUS
  <2>2. \A p \in Paths : file[p] = <<Editor!Content(p, 0, "agent")>>
    BY DEF Editor!Init
  <2>3. QED
    BY <1>1, <2>1, <2>2
<1>3. EditorTypes
  BY <1>2 DEF Editor!Init, EditorTypes, Editor!Version, Editor!WorkspaceEditorAssumption
<1>4. Editor!NoRevisionIsOverwritten
  BY <1>1, <1>2 DEF Editor!NoRevisionIsOverwritten, Editor!Version
<1>5. QED
  BY <1>3, <1>4 DEF Editor!Init, EditorInv, AnswersExist, EditorFollows, SaveIsOver

LEMMA EditorInvTypes == EditorInv => Editor!TypeOK
<1> SUFFICES ASSUME EditorInv PROVE Editor!TypeOK
  OBVIOUS
<1>1. selected # None => selected.version \in DOMAIN file[selected.path]
  BY DEF EditorInv, AnswersExist, Exists, EditorTypes, Revisions, Editor!Version
<1>2. QED
  BY <1>1 DEF EditorInv, AnswersExist, Exists, EditorTypes, Editor!TypeOK, Editor!Revision

\* Every variable keeps its shape, and what the page shows is a revision that
\* exists under the version it is shown with.
THEOREM EditorTypeCorrect ==
    ASSUME Editor!WorkspaceEditorAssumption
    PROVE  Editor!Spec => []Editor!TypeOK
BY EditorInvTypes, InitEditor, NextKeepsEditor, PTL DEF Editor!Spec

\* putProjectFile with selectedFile.version: what the user saved was typed in the
\* file it is stored in and over the revision right below it.
THEOREM NoRevisionIsOverwrittenHolds ==
    ASSUME Editor!WorkspaceEditorAssumption
    PROVE  Editor!Spec => []Editor!NoRevisionIsOverwritten
<1>1. EditorInv => Editor!NoRevisionIsOverwritten
  BY DEF EditorInv
<1>2. QED
  BY <1>1, InitEditor, NextKeepsEditor, PTL DEF Editor!Spec

-----------------------------------------------------------------------------
(* The meeting preparation pages *)

Flying == {"access", "read", "swap", "answer"}

\* A row that was read as completed is the row still.
Stands(row, w) == row.status = "COMPLETED" => row = meeting[w]

\* A completed meeting has a brief, the one of its action.
CompletedHasBrief ==
    \A w \in Workspaces :
        /\ meeting[w].state = "READY" => meeting[w].status = "COMPLETED"
        /\ meeting[w].status = "COMPLETED" =>
              meeting[w].brief \in Briefs /\ meeting[w].response = meeting[w].brief

\* A load answers with a row that exists; the active one is for the selected workspace.
LoadAnswer(p, mount) ==
    LET l == load[p, mount] IN
    l.pc \in {"list", "create", "answer"} =>
        /\ l.ws \in Workspaces
        /\ l.pc = "answer" => l.row.status # "ABSENT" /\ Stands(l.row, l.ws)
        /\ Meeting!Active(p, mount) => page[p].loading /\ l.ws = page[p].selected

\* A save is answered with the brief on record, "ok" exactly when that is its own.
SaveAnswer(p, mount) ==
    LET s == save[p, mount] IN
    /\ s.pc \in Flying => s.ws \in Workspaces /\ s.brief \in Briefs
    /\ s.pc \in {"none", "access", "read", "swap"} => s.answer = "none"
    /\ s.pc = "answer" => /\ s.row.status = "COMPLETED" /\ Stands(s.row, s.ws)
                          /\ s.answer = Meeting!Conflict(s.row, s.brief)

\* A save of the mounted form carries its response, or the form was mounted again
\* for the meeting that was completed meanwhile.
SaveIsSent(p, mount) ==
    /\ mount > page[p].run \/ (mount = page[p].run /\ page[p].loading) => save[p, mount].pc = "none"
    /\ save[p, mount].pc \in Flying /\ Meeting!Active(p, mount) => save[p, mount].ws = page[p].selected
    /\ save[p, mount].pc \in Flying /\ Meeting!Caller(p, mount) =>
          \/ briefForm[p].applying /\ briefForm[p].response = save[p, mount].brief
          \/ briefForm[p].status = "COMPLETED" /\ briefForm[p].response = None

\* What a page shows exists, and was selected or saved here.
PageShows(p) ==
    /\ page[p].of # None => page[p].row.status # "ABSENT" /\ Stands(page[p].row, page[p].of)
    /\ page[p].run # 0 => page[p].selected # None
    /\ page[p].error \/ page[p].of # None => page[p].run # 0
    /\ page[p].of \notin {None, page[p].selected} =>
          /\ page[p].row.status = "COMPLETED"
          /\ \E mount \in Meeting!Runs : save[p, mount].ws = page[p].of /\ save[p, mount].answer = "ok"

\* The form is the one of the meeting shown; what it says of a save is true.
FormShows(p) ==
    /\ IF Meeting!Renders(page[p])
       THEN briefForm[p].key = page[p].of /\ briefForm[p].mount = page[p].run
       ELSE briefForm[p] = Meeting!NoForm
    /\ briefForm[p].valid => briefForm[p].response \in Briefs
    /\ briefForm[p].key \notin {None, page[p].selected} => briefForm[p].status = "COMPLETED"
    /\ briefForm[p].status = "COMPLETED" =>
          /\ briefForm[p].key # None /\ meeting[briefForm[p].key].status = "COMPLETED"
          /\ briefForm[p].brief = meeting[briefForm[p].key].brief
    /\ briefForm[p].error = "conflict" =>
          /\ briefForm[p].key # None /\ meeting[briefForm[p].key].status = "COMPLETED"
          /\ meeting[briefForm[p].key].brief # briefForm[p].response

PageInv(p) ==
    /\ PageShows(p) /\ FormShows(p)
    /\ \A mount \in Meeting!Runs : LoadAnswer(p, mount) /\ SaveAnswer(p, mount) /\ SaveIsSent(p, mount)

MeetingsInv == Meeting!TypeOK /\ CompletedHasBrief /\ \A p \in Pages : PageInv(p)

\* A completed meeting is not written again.
CompletedStays ==
    \A w \in Workspaces : meeting[w].status = "COMPLETED" => meeting'[w] = meeting[w]

-----------------------------------------------------------------------------
(* Changing one call or one page *)

LEMMA OneCall ==
    ASSUME NEW S, NEW f \in [Pages \X Meeting!Runs -> S], NEW p \in Pages, NEW mount \in Meeting!Runs, NEW v \in S
    PROVE  /\ [f EXCEPT ![<<p, mount>>] = v] \in [Pages \X Meeting!Runs -> S]
           /\ \A q \in Pages, r \in Meeting!Runs :
                 [f EXCEPT ![<<p, mount>>] = v][q, r] = IF q = p /\ r = mount THEN v ELSE f[q, r]
OBVIOUS

\* What a page renders is a form.
LEMMA RenderedForm ==
    ASSUME Meeting!MeetingsAssumption, NEW pg \in Meeting!Page, NEW f \in Meeting!Form,
           pg.of # None => pg.row.status # "ABSENT"
    PROVE  /\ Meeting!Rendered(f, pg) \in Meeting!Form
           /\ Meeting!Renders(pg) => Meeting!Rendered(f, pg).key = pg.of /\ Meeting!Rendered(f, pg).mount = pg.run
           /\ ~ Meeting!Renders(pg) => Meeting!Rendered(f, pg) = Meeting!NoForm
<1>1. Meeting!NoForm \in Meeting!Form
  BY DEF Meeting!MeetingsAssumption, Meeting!NoForm, Meeting!Form, Meeting!Statuses
<1>2. ASSUME Meeting!Renders(pg)
      PROVE  Meeting!Mounted(pg) \in Meeting!Form /\ Meeting!Mounted(pg).key = pg.of /\ Meeting!Mounted(pg).mount = pg.run
  <2>1. pg.row \in Meeting!Meeting /\ pg.row.status \in {"PENDING", "COMPLETED"}
    BY <1>2 DEF Meeting!Page, Meeting!Meeting, Meeting!Renders
  <2>2. pg.of \in Workspaces \union {None} /\ pg.run \in 0 .. MountBound
    BY DEF Meeting!Page
  <2>3. QED
    BY <2>1, <2>2 DEF Meeting!Mounted, Meeting!NoForm, Meeting!Form, Meeting!Statuses,
       Meeting!Meeting
<1>3. QED
  BY <1>1, <1>2 DEF Meeting!Rendered

LEMMA OnePage ==
    ASSUME Meeting!MeetingsAssumption, Meeting!TypeOK, NEW p \in Pages, NEW pg \in Meeting!Page, NEW f \in Meeting!Form,
           pg.of # None => pg.row.status # "ABSENT", Meeting!SetPage(p, pg, f)
    PROVE  /\ page' \in [Pages -> Meeting!Page] /\ briefForm' \in [Pages -> Meeting!Form]
           /\ page'[p] = pg /\ briefForm'[p] = Meeting!Rendered(f, pg)
           /\ briefForm'[p] \in Meeting!Form
           /\ \A q \in Pages : q # p => page'[q] = page[q] /\ briefForm'[q] = briefForm[q]
           /\ Meeting!Renders(pg) => briefForm'[p].key = pg.of /\ briefForm'[p].mount = pg.run
           /\ ~ Meeting!Renders(pg) => briefForm'[p] = Meeting!NoForm
<1>1. /\ Meeting!Rendered(f, pg) \in Meeting!Form
      /\ Meeting!Renders(pg) => Meeting!Rendered(f, pg).key = pg.of /\ Meeting!Rendered(f, pg).mount = pg.run
      /\ ~ Meeting!Renders(pg) => Meeting!Rendered(f, pg) = Meeting!NoForm
  BY RenderedForm
<1>2. page \in [Pages -> Meeting!Page] /\ briefForm \in [Pages -> Meeting!Form]
  BY DEF Meeting!TypeOK
<1> DEFINE new == Meeting!Rendered(f, pg)
<1>3. page' = [page EXCEPT ![p] = pg] /\ briefForm' = [briefForm EXCEPT ![p] = new]
  BY DEF Meeting!SetPage
<1>4. new \in Meeting!Form /\ new = Meeting!Rendered(f, pg)
  BY <1>1
<1> HIDE DEF new
<1>5. page' \in [Pages -> Meeting!Page] /\ page'[p] = pg /\ \A q \in Pages : q # p => page'[q] = page[q]
  BY <1>2, <1>3
<1>6. briefForm' \in [Pages -> Meeting!Form] /\ briefForm'[p] = new /\ \A q \in Pages : q # p => briefForm'[q] = briefForm[q]
  BY <1>2, <1>3, <1>4
<1>7. QED
  BY <1>1, <1>4, <1>5, <1>6

-----------------------------------------------------------------------------
(* Steps *)

\* What a step leaves alone keeps what holds of it.
LEMMA PageKept ==
    ASSUME MeetingsInv, CompletedStays, NEW q \in Pages, page'[q] = page[q],
           \A r \in Meeting!Runs : save[q, r].answer = "ok" =>
               save'[q, r].answer = "ok" /\ save'[q, r].ws = save[q, r].ws
    PROVE  PageShows(q)'
<1>1. PageShows(q) /\ page[q] \in Meeting!Page
  BY DEF MeetingsInv, Meeting!TypeOK, PageInv
<1>2. QED
  BY <1>1 DEF PageShows, CompletedStays, Stands, Meeting!Page

LEMMA ShowsKept ==
    ASSUME MeetingsInv, CompletedStays, NEW q \in Pages, page'[q] = page[q], briefForm'[q] = briefForm[q],
           \A r \in Meeting!Runs : save[q, r].answer = "ok" =>
               save'[q, r].answer = "ok" /\ save'[q, r].ws = save[q, r].ws
    PROVE  PageShows(q)' /\ FormShows(q)'
<1>1. FormShows(q) /\ page[q] \in Meeting!Page /\ briefForm[q] \in Meeting!Form
  BY DEF MeetingsInv, Meeting!TypeOK, PageInv
<1>2. PageShows(q)'
  BY PageKept
<1>3. FormShows(q)'
  BY <1>1 DEF FormShows, CompletedStays, Meeting!Form
<1>4. QED
  BY <1>2, <1>3

LEMMA LoadKept ==
    ASSUME MeetingsInv, CompletedStays, NEW q \in Pages, NEW r \in Meeting!Runs,
           page'[q] = page[q], load'[q, r] = load[q, r]
    PROVE  LoadAnswer(q, r)'
<1>1. LoadAnswer(q, r)
  BY DEF MeetingsInv, PageInv
<1>2. QED
  BY <1>1 DEF LoadAnswer, Meeting!Active, CompletedStays, Stands

LEMMA SaveKept ==
    ASSUME MeetingsInv, CompletedStays, NEW q \in Pages, NEW r \in Meeting!Runs,
           page'[q] = page[q], briefForm'[q] = briefForm[q], save'[q, r] = save[q, r]
    PROVE  SaveAnswer(q, r)' /\ SaveIsSent(q, r)'
<1>1. SaveAnswer(q, r) /\ SaveIsSent(q, r)
  BY DEF MeetingsInv, PageInv
<1>2. SaveAnswer(q, r)'
  BY <1>1 DEF SaveAnswer, CompletedStays, Stands, Flying
<1>3. SaveIsSent(q, r)'
  BY <1>1 DEF SaveIsSent, Meeting!Active, Meeting!Caller
<1>4. QED
  BY <1>2, <1>3

LEMMA StepKeeps ==
    ASSUME Meeting!MeetingsAssumption, MeetingsInv, CompletedStays, Meeting!TypeOK', CompletedHasBrief',
           NEW p \in Pages, PageInv(p)',
           \A q \in Pages : q # p => page'[q] = page[q] /\ briefForm'[q] = briefForm[q],
           \A q \in Pages, r \in Meeting!Runs : q # p => load'[q, r] = load[q, r] /\ save'[q, r] = save[q, r]
    PROVE  MeetingsInv'
<1>1. ASSUME NEW q \in Pages PROVE PageInv(q)'
  <2>1. CASE q = p
    BY <2>1
  <2>2. CASE q # p
    BY <2>2, ShowsKept, LoadKept, SaveKept DEF PageInv
  <2>3. QED
    BY <2>1, <2>2
<1>2. QED
  BY <1>1 DEF MeetingsInv

LEMMA StartLoadKeeps ==
    ASSUME Meeting!MeetingsAssumption, MeetingsInv, NEW p \in Pages, NEW w \in Workspaces, Meeting!StartLoad(p, w)
    PROVE  MeetingsInv'
<1> DEFINE mount == page[p].run + 1
           pg == [selected |-> w, run |-> mount, of |-> None, row |-> Meeting!Absent, loading |-> TRUE, error |-> FALSE]
           new == [Meeting!NoLoad EXCEPT !.pc = "list", !.ws = w]
<1>1. /\ meeting \in [Workspaces -> Meeting!Meeting] /\ page \in [Pages -> Meeting!Page]
      /\ briefForm \in [Pages -> Meeting!Form]
      /\ load \in [Pages \X Meeting!Runs -> Meeting!Load]
      /\ save \in [Pages \X Meeting!Runs -> Meeting!Save]
      /\ page[p] \in Meeting!Page /\ briefForm[p] \in Meeting!Form
      /\ page[p].run \in 0 .. MountBound /\ page[p].run \in Nat
  BY DEF MeetingsInv, Meeting!TypeOK, Meeting!Page, Meeting!MeetingsAssumption
<1>2. /\ mount \in Meeting!Runs /\ mount \in 0 .. MountBound /\ mount # 0
      /\ Meeting!Absent \in Meeting!Meeting /\ pg \in Meeting!Page
  <2>1. mount \in Meeting!Runs /\ mount \in 0 .. MountBound /\ mount # 0
    BY <1>1 DEF Meeting!StartLoad, Meeting!Runs, Meeting!MeetingsAssumption
  <2>2. Meeting!Absent \in Meeting!Meeting
    BY DEF Meeting!Absent, Meeting!Meeting
  <2>3. QED
    BY <2>1, <2>2 DEF Meeting!Page
<1>3. /\ Meeting!SetPage(p, pg, briefForm[p]) /\ load' = [load EXCEPT ![<<p, mount>>] = new]
      /\ meeting' = meeting /\ save' = save
  BY DEF Meeting!StartLoad
<1>4. /\ new \in Meeting!Load /\ new.pc = "list" /\ new.ws = w /\ pg.of = None /\ pg.run = mount
      /\ pg.loading
      /\ ~ pg.error /\ pg.selected = w /\ w # None /\ ~ Meeting!Renders(pg)
  BY <1>1 DEF Meeting!NoLoad, Meeting!Load, Meeting!Absent, Meeting!Meeting, Meeting!Renders,
     Meeting!MeetingsAssumption
<1> HIDE DEF pg, new
<1>5. /\ page' \in [Pages -> Meeting!Page] /\ briefForm' \in [Pages -> Meeting!Form]
      /\ page'[p] = pg /\ briefForm'[p] = Meeting!NoForm
      /\ \A q \in Pages : q # p => page'[q] = page[q] /\ briefForm'[q] = briefForm[q]
  BY <1>1, <1>2, <1>3, <1>4, OnePage DEF MeetingsInv
<1>6. /\ load' \in [Pages \X Meeting!Runs -> Meeting!Load]
      /\ \A q \in Pages, r \in Meeting!Runs :
            load'[q, r] = IF q = p /\ r = mount THEN new ELSE load[q, r]
  BY <1>1, <1>2, <1>3, <1>4, OneCall
<1>7. Meeting!TypeOK'
  BY <1>1, <1>3, <1>5, <1>6 DEF Meeting!TypeOK
<1>8. CompletedHasBrief' /\ CompletedStays
  BY <1>3 DEF MeetingsInv, CompletedHasBrief, CompletedStays
<1>n. /\ Meeting!NoForm.key = None /\ Meeting!NoForm.status = "PENDING"
      /\ Meeting!NoForm.error = "none" /\ ~ Meeting!NoForm.valid
  BY DEF Meeting!NoForm
<1>9. PageShows(p)' /\ FormShows(p)'
  <2>1. PageShows(p)'
    BY <1>2, <1>4, <1>5 DEF PageShows
  <2>2. FormShows(p)'
    BY <1>4, <1>5, <1>n DEF FormShows
  <2>3. QED
    BY <2>1, <2>2
<1>10. ASSUME NEW r \in Meeting!Runs
       PROVE  LoadAnswer(p, r)' /\ SaveAnswer(p, r)' /\ SaveIsSent(p, r)'
  <2>r. r \in Nat
    BY DEF Meeting!Runs
  <2>1. LoadAnswer(p, r) /\ SaveAnswer(p, r) /\ SaveIsSent(p, r)
    BY DEF MeetingsInv, PageInv
  <2>2. LoadAnswer(p, r)'
    <3>1. CASE r = mount
      BY <3>1, <1>4, <1>5, <1>6 DEF LoadAnswer
    <3>2. CASE r # mount
      BY <3>2, <2>1, <1>3, <1>4, <1>5, <1>6 DEF LoadAnswer, Meeting!Active, Stands
    <3>3. QED
      BY <3>1, <3>2
  <2>3. SaveAnswer(p, r)'
    BY <2>1, <1>3 DEF SaveAnswer, Stands
  <2>4. SaveIsSent(p, r)'
    <3>1. r >= mount => save[p, r].pc = "none"
      <4>1. r >= mount => r > page[p].run
        BY <1>1, <2>r
      <4>2. QED
        BY <2>1, <4>1 DEF SaveIsSent
    <3>2. ~ (save[p, r].pc \in Flying /\ Meeting!Caller(p, r)')
      <4>1. save[p, r].pc \in Flying => save[p, r].ws # None
        BY <2>1 DEF SaveAnswer, Meeting!MeetingsAssumption
      <4>2. QED
        BY <4>1, <1>3, <1>5, <1>n DEF Meeting!Caller
    <3>3. page'[p].run = mount /\ save'[p, r] = save[p, r]
      BY <1>3, <1>4, <1>5
    <3>4. r >= mount \/ (~ (r > mount) /\ r # mount)
      BY <1>1, <2>r
    <3>5. QED
      BY <3>1, <3>2, <3>3, <3>4 DEF SaveIsSent, Meeting!Active, Flying
  <2>5. QED
    BY <2>2, <2>3, <2>4
<1>11. PageInv(p)'
  BY <1>9, <1>10 DEF PageInv
<1>12. QED
  BY <1>3, <1>5, <1>6, <1>7, <1>8, <1>11, StepKeeps

\* A load that goes on, with its page as it was.
LEMMA LoadGoesOn ==
    ASSUME Meeting!MeetingsAssumption, MeetingsInv, CompletedStays, CompletedHasBrief',
           meeting' \in [Workspaces -> Meeting!Meeting], UNCHANGED <<page, briefForm, save>>,
           NEW p \in Pages, NEW mount \in Meeting!Runs, NEW new \in Meeting!Load,
           load' = [load EXCEPT ![<<p, mount>>] = new], LoadAnswer(p, mount)'
    PROVE  MeetingsInv'
<1>1. load \in [Pages \X Meeting!Runs -> Meeting!Load]
  BY DEF MeetingsInv, Meeting!TypeOK
<1>2. /\ load' \in [Pages \X Meeting!Runs -> Meeting!Load]
      /\ \A q \in Pages, r \in Meeting!Runs : load'[q, r] = IF q = p /\ r = mount THEN new ELSE load[q, r]
  BY <1>1, OneCall
<1>3. Meeting!TypeOK'
  BY <1>2 DEF MeetingsInv, Meeting!TypeOK
<1>4. PageShows(p)' /\ FormShows(p)'
  BY ShowsKept
<1>5. ASSUME NEW r \in Meeting!Runs
      PROVE  LoadAnswer(p, r)' /\ SaveAnswer(p, r)' /\ SaveIsSent(p, r)'
  BY <1>2, LoadKept, SaveKept
<1>6. QED
  BY <1>2, <1>3, <1>4, <1>5, StepKeeps DEF PageInv

LEMMA ListKeeps ==
    ASSUME Meeting!MeetingsAssumption, MeetingsInv, NEW p \in Pages, NEW mount \in Meeting!Runs,
           Meeting!ListMeetings(p, mount) \/ Meeting!CreateMeeting(p, mount)
    PROVE  MeetingsInv'
<1> DEFINE l == load[p, mount]
<1>1. /\ l \in Meeting!Load /\ meeting \in [Workspaces -> Meeting!Meeting]
      /\ load \in [Pages \X Meeting!Runs -> Meeting!Load]
      /\ LoadAnswer(p, mount) /\ CompletedHasBrief
  BY DEF MeetingsInv, Meeting!TypeOK, PageInv
<1>2. l.ws \in Workspaces /\ meeting[l.ws] \in Meeting!Meeting /\ (Meeting!Active(p, mount) => page[p].loading /\ l.ws = page[p].selected)
  BY <1>1 DEF LoadAnswer, Meeting!ListMeetings, Meeting!CreateMeeting
<1>3. CASE Meeting!ListMeetings(p, mount)
  <2> DEFINE row == meeting[l.ws]
             new == [l EXCEPT !.pc = IF row.status = "ABSENT" THEN "create" ELSE "answer", !.row = row]
  <2>1. /\ UNCHANGED <<meeting, page, briefForm, save>>
        /\ load' = [load EXCEPT ![<<p, mount>>] = new]
    BY <1>3 DEF Meeting!ListMeetings
  <2>2. /\ new \in Meeting!Load /\ new.ws = l.ws /\ new.row = row
        /\ new.pc \in {"create", "answer"}
        /\ new.pc = "answer" => row.status # "ABSENT"
    BY <1>1, <1>2 DEF Meeting!Load
  <2> HIDE DEF new
  <2>3. load'[p, mount] = new
    BY <1>1, <2>1
  <2>4. CompletedStays /\ CompletedHasBrief' /\ meeting' \in [Workspaces -> Meeting!Meeting]
    BY <1>1, <2>1 DEF CompletedStays, CompletedHasBrief
  <2>5. LoadAnswer(p, mount)'
    BY <1>2, <2>1, <2>2, <2>3 DEF LoadAnswer, Meeting!Active, Stands
  <2>6. QED
    BY <2>1, <2>2, <2>4, <2>5, LoadGoesOn
<1>4. CASE Meeting!CreateMeeting(p, mount)
  <2> DEFINE row == IF Meeting!Taken(l.ws) THEN meeting[l.ws] ELSE Meeting!NewMeeting
             new == [l EXCEPT !.pc = "answer", !.row = row]
  <2>1. /\ UNCHANGED <<page, briefForm, save>> /\ load' = [load EXCEPT ![<<p, mount>>] = new]
        /\ meeting' = [meeting EXCEPT ![l.ws] = row]
    BY <1>4 DEF Meeting!CreateMeeting
  <2>2. /\ Meeting!NewMeeting \in Meeting!Meeting /\ Meeting!NewMeeting.status = "PENDING"
        /\ Meeting!NewMeeting.state # "READY"
    BY DEF Meeting!NewMeeting, Meeting!Meeting
  <2>3. row \in Meeting!Meeting /\ row.status # "ABSENT" /\ (meeting[l.ws].status = "COMPLETED" => row = meeting[l.ws])
    BY <1>2, <2>2 DEF Meeting!Taken
  <2>4. new \in Meeting!Load /\ new.ws = l.ws /\ new.row = row /\ new.pc = "answer"
    BY <1>1, <2>3 DEF Meeting!Load
  <2>5. CompletedHasBrief'
    BY <1>1, <1>2, <2>1, <2>2 DEF CompletedHasBrief
  <2> HIDE DEF new, row
  <2>6. /\ load'[p, mount] = new /\ meeting'[l.ws] = row
        /\ meeting' \in [Workspaces -> Meeting!Meeting]
    BY <1>1, <1>2, <2>1, <2>3
  <2>7. CompletedStays
    BY <1>1, <2>1, <2>3 DEF CompletedStays
  <2>8. LoadAnswer(p, mount)'
    BY <1>2, <2>1, <2>3, <2>4, <2>6 DEF LoadAnswer, Meeting!Active, Stands
  <2>9. QED
    BY <2>1, <2>4, <2>5, <2>6, <2>7, <2>8, LoadGoesOn
<1>5. QED
  BY <1>3, <1>4

\* A form that is mounted says what the meeting on the page says.
LEMMA MountedShows ==
    ASSUME Meeting!MeetingsAssumption, NEW pg \in Meeting!Page, Meeting!Renders(pg),
           pg.row.status = "COMPLETED" => pg.row = meeting[pg.of]
    PROVE  LET f == Meeting!Mounted(pg) IN
           /\ f.key = pg.of /\ f.mount = pg.run /\ ~ f.valid /\ f.error = "none" /\ ~ f.applying
           /\ f.response = None /\ f.status = pg.row.status
           /\ f.status = "COMPLETED" => meeting[pg.of].status = "COMPLETED" /\ f.brief = meeting[pg.of].brief
BY DEF Meeting!Mounted, Meeting!NoForm

LEMMA LoadEndKeeps ==
    ASSUME Meeting!MeetingsAssumption, MeetingsInv, NEW p \in Pages, NEW mount \in Meeting!Runs,
           Meeting!LoadAnswers(p, mount) \/ Meeting!LoadFails(p, mount)
    PROVE  MeetingsInv'
<1> DEFINE l == load[p, mount]
           new == [l EXCEPT !.pc = "ended"]
<1>1. /\ l \in Meeting!Load /\ meeting \in [Workspaces -> Meeting!Meeting]
      /\ load \in [Pages \X Meeting!Runs -> Meeting!Load]
      /\ page[p] \in Meeting!Page /\ briefForm[p] \in Meeting!Form
      /\ LoadAnswer(p, mount) /\ CompletedHasBrief /\ PageShows(p) /\ FormShows(p)
  BY DEF MeetingsInv, Meeting!TypeOK, PageInv
<1>2. /\ load' = [load EXCEPT ![<<p, mount>>] = new] /\ UNCHANGED <<meeting, save>>
      /\ l.pc \in {"list", "create", "answer"}
  BY <1>1 DEF Meeting!LoadAnswers, Meeting!LoadFails
<1>3. new \in Meeting!Load /\ new.pc = "ended"
  BY <1>1 DEF Meeting!Load
<1> HIDE DEF new
<1>4. /\ load' \in [Pages \X Meeting!Runs -> Meeting!Load]
      /\ \A q \in Pages, r \in Meeting!Runs : load'[q, r] = IF q = p /\ r = mount THEN new ELSE load[q, r]
  BY <1>1, <1>2, <1>3, OneCall
<1>5. CompletedStays /\ CompletedHasBrief' /\ meeting' \in [Workspaces -> Meeting!Meeting]
  BY <1>1, <1>2 DEF CompletedStays, CompletedHasBrief
<1>6. CASE ~ Meeting!Active(p, mount)
  <2>1. UNCHANGED <<page, briefForm>>
    BY <1>6 DEF Meeting!LoadAnswers, Meeting!LoadFails
  <2>2. LoadAnswer(p, mount)'
    BY <1>3, <1>4 DEF LoadAnswer
  <2>3. QED
    BY <1>2, <1>3, <1>5, <2>1, <2>2, LoadGoesOn
<1>7. CASE Meeting!Active(p, mount)
  <2>1. /\ page[p].run = mount /\ page[p].loading /\ l.ws = page[p].selected
        /\ l.ws \in Workspaces
        /\ l.ws # None
    BY <1>1, <1>2, <1>7 DEF LoadAnswer, Meeting!Active, Meeting!MeetingsAssumption
  <2>2. briefForm[p] = Meeting!NoForm /\ mount # 0
    <3>1. ~ Meeting!Renders(page[p])
      BY <2>1 DEF Meeting!Renders
    <3>2. mount # 0
      BY DEF Meeting!Runs, Meeting!MeetingsAssumption
    <3>3. QED
      BY <1>1, <3>1, <3>2 DEF FormShows
  <2>3. PICK pg \in Meeting!Page :
          /\ Meeting!SetPage(p, pg, briefForm[p])
          /\ pg.selected = page[p].selected /\ pg.run = mount /\ ~ pg.loading
          /\ pg.of # None => pg.row.status # "ABSENT" /\ Stands(pg.row, pg.of)
          /\ pg.of \notin {None, pg.selected} => pg.of = page[p].of /\ pg.row = page[p].row
          /\ Meeting!Renders(pg) => pg.of = pg.selected
    <3>1. CASE Meeting!LoadAnswers(p, mount)
      <4> DEFINE pg == [page[p] EXCEPT !.of = l.ws, !.row = l.row, !.loading = FALSE]
      <4>1. Meeting!SetPage(p, pg, briefForm[p]) /\ l.pc = "answer"
        BY <1>7, <3>1 DEF Meeting!LoadAnswers
      <4>2. /\ pg \in Meeting!Page /\ pg.selected = page[p].selected /\ pg.run = mount
            /\ ~ pg.loading
            /\ pg.of = l.ws /\ pg.row = l.row
        BY <1>1, <2>1 DEF Meeting!Page, Meeting!Load
      <4>3. l.row.status # "ABSENT" /\ Stands(l.row, l.ws)
        BY <1>1, <4>1 DEF LoadAnswer
      <4> HIDE DEF pg
      <4>4. QED
        BY <2>1, <4>1, <4>2, <4>3
    <3>2. CASE Meeting!LoadFails(p, mount)
      <4> DEFINE pg == [page[p] EXCEPT !.error = TRUE, !.loading = FALSE]
      <4>1. Meeting!SetPage(p, pg, briefForm[p])
        BY <1>7, <3>2 DEF Meeting!LoadFails
      <4>2. /\ pg \in Meeting!Page /\ pg.selected = page[p].selected /\ pg.run = mount
            /\ ~ pg.loading /\ pg.error
            /\ pg.of = page[p].of /\ pg.row = page[p].row
        BY <1>1, <2>1 DEF Meeting!Page
      <4>3. pg.of # None => pg.row.status # "ABSENT" /\ Stands(pg.row, pg.of)
        BY <1>1, <4>2 DEF PageShows
      <4> HIDE DEF pg
      <4>4. ~ Meeting!Renders(pg)
        BY <4>2 DEF Meeting!Renders
      <4>5. QED
        BY <4>1, <4>2, <4>3, <4>4
    <3>3. QED
      BY <3>1, <3>2
  <2>4. /\ page' \in [Pages -> Meeting!Page] /\ briefForm' \in [Pages -> Meeting!Form]
        /\ page'[p] = pg
        /\ briefForm'[p] = Meeting!Rendered(briefForm[p], pg)
        /\ \A q \in Pages : q # p => page'[q] = page[q] /\ briefForm'[q] = briefForm[q]
        /\ ~ Meeting!Renders(pg) => briefForm'[p] = Meeting!NoForm
    BY <1>1, <2>3, OnePage, ZenonT(60) DEF MeetingsInv
  <2>5. Meeting!Renders(pg) => briefForm'[p] = Meeting!Mounted(pg)
    BY <2>2, <2>4 DEF Meeting!Rendered, Meeting!NoForm, Meeting!Renders
  <2>6. Meeting!TypeOK'
    BY <1>2, <1>4, <1>5, <2>4 DEF MeetingsInv, Meeting!TypeOK
  <2>7. PageShows(p)'
    <3>1. pg.of # None => Stands(pg.row, pg.of)'
      BY <1>2, <2>3 DEF Stands
    <3>2. QED
      BY <1>1, <1>2, <2>1, <2>2, <2>3, <2>4, <3>1, ZenonT(60) DEF PageShows
  <2>8. FormShows(p)'
    <3>1. CASE Meeting!Renders(pg)
      <4> DEFINE f == Meeting!Mounted(pg)
      <4>1. /\ f.key = pg.of /\ f.mount = pg.run /\ ~ f.valid /\ f.error = "none"
            /\ f.status = "COMPLETED" => meeting[pg.of].status = "COMPLETED" /\ f.brief = meeting[pg.of].brief
        BY <2>3, <3>1, MountedShows DEF Stands, Meeting!Renders
      <4>2. briefForm'[p] = f /\ pg.of # None /\ pg.of = pg.selected
        BY <2>3, <2>5, <3>1 DEF Meeting!Renders
      <4> HIDE DEF f
      <4>3. QED
        BY <1>2, <2>4, <3>1, <4>1, <4>2 DEF FormShows
    <3>2. CASE ~ Meeting!Renders(pg)
      <4>1. /\ Meeting!NoForm.key = None /\ Meeting!NoForm.status = "PENDING"
            /\ Meeting!NoForm.error = "none" /\ ~ Meeting!NoForm.valid
        BY DEF Meeting!NoForm
      <4>2. QED
        BY <2>4, <3>2, <4>1 DEF FormShows
    <3>3. QED
      BY <3>1, <3>2
  <2>9. ASSUME NEW r \in Meeting!Runs
        PROVE  LoadAnswer(p, r)' /\ SaveAnswer(p, r)' /\ SaveIsSent(p, r)'
    <3>1. LoadAnswer(p, r) /\ SaveAnswer(p, r) /\ SaveIsSent(p, r)
      BY DEF MeetingsInv, PageInv
    <3>2. LoadAnswer(p, r)'
      BY <1>2, <1>3, <1>4, <2>1, <2>3, <2>4, <3>1, ZenonT(60) DEF LoadAnswer, Meeting!Active, Stands
    <3>3. SaveAnswer(p, r)'
      BY <1>2, <3>1 DEF SaveAnswer, Stands
    <3>4. save[p, mount].pc = "none"
      <4>1. SaveIsSent(p, mount)
        BY DEF MeetingsInv, PageInv
      <4>2. QED
        BY <2>1, <4>1 DEF SaveIsSent
    <3>5. ~ (save'[p, r].pc \in Flying /\ Meeting!Caller(p, r)')
      <4>1. save[p, r].pc \in Flying => save[p, r].ws # None /\ r # mount
        BY <3>1, <3>4 DEF SaveAnswer, Meeting!MeetingsAssumption, Flying
      <4>2. CASE Meeting!Renders(pg)
        <5>1. briefForm'[p].mount = mount
          BY <2>3, <2>4, <4>2, <1>1, OnePage DEF MeetingsInv
        <5>2. QED
          BY <1>2, <4>1, <5>1 DEF Meeting!Caller
      <4>3. CASE ~ Meeting!Renders(pg)
        <5>1. briefForm'[p].key = None
          BY <2>4, <4>3 DEF Meeting!NoForm
        <5>2. QED
          BY <1>2, <4>1, <5>1 DEF Meeting!Caller
      <4>4. QED
        BY <4>2, <4>3
    <3>6. SaveIsSent(p, r)'
      BY <1>2, <2>1, <2>3, <2>4, <3>1, <3>5 DEF SaveIsSent, Meeting!Active
    <3>7. QED
      BY <3>2, <3>3, <3>6
  <2>10. QED
    BY <1>2, <1>4, <1>5, <2>4, <2>6, <2>7, <2>8, <2>9, StepKeeps DEF PageInv
<1>8. QED
  BY <1>6, <1>7

\* What the user does in a form whose save is not on its way.
LEMMA FormGoesOn ==
    ASSUME Meeting!MeetingsAssumption, MeetingsInv, NEW p \in Pages, NEW f \in Meeting!Form,
           briefForm' = [briefForm EXCEPT ![p] = f], UNCHANGED <<meeting, page, load, save>>,
           briefForm[p].key # None, briefForm[p].status # "COMPLETED", f.status # "COMPLETED",
           f.key = briefForm[p].key, f.mount = briefForm[p].mount, f.valid => f.response \in Briefs,
           f.error = "conflict" => briefForm[p].error = "conflict" /\ f.response = briefForm[p].response,
           \/ ~ briefForm[p].applying
           \/ f.applying = briefForm[p].applying /\ f.response = briefForm[p].response
    PROVE  MeetingsInv'
<1>1. /\ briefForm \in [Pages -> Meeting!Form] /\ page[p] \in Meeting!Page
      /\ briefForm[p] \in Meeting!Form /\ FormShows(p)
  BY DEF MeetingsInv, Meeting!TypeOK, PageInv
<1>2. briefForm' \in [Pages -> Meeting!Form] /\ briefForm'[p] = f /\ \A q \in Pages : q # p => briefForm'[q] = briefForm[q]
  BY <1>1
<1>3. CompletedStays /\ CompletedHasBrief' /\ Meeting!TypeOK'
  BY <1>2 DEF MeetingsInv, CompletedStays, CompletedHasBrief, Meeting!TypeOK
<1>4. Meeting!Renders(page[p])
  BY <1>1 DEF FormShows, Meeting!NoForm
<1>5. FormShows(p)'
  BY <1>1, <1>2, <1>4 DEF FormShows
<1>6. ASSUME NEW r \in Meeting!Runs
      PROVE  LoadAnswer(p, r)' /\ SaveAnswer(p, r)' /\ SaveIsSent(p, r)'
  <2>1. SaveAnswer(p, r) /\ SaveIsSent(p, r)
    BY DEF MeetingsInv, PageInv
  <2>2. LoadAnswer(p, r)'
    BY <1>3, LoadKept
  <2>3. SaveAnswer(p, r)'
    BY <2>1 DEF SaveAnswer, Stands
  <2>4. SaveIsSent(p, r)'
    BY <2>1, <1>2 DEF SaveIsSent, Meeting!Active, Meeting!Caller
  <2>5. QED
    BY <2>2, <2>3, <2>4
<1>7. PageShows(p)'
  BY <1>3, PageKept
<1>8. QED
  BY <1>2, <1>3, <1>5, <1>6, <1>7, StepKeeps DEF PageInv

LEMMA FormKeeps ==
    ASSUME Meeting!MeetingsAssumption, MeetingsInv, NEW p \in Pages,
           \/ Meeting!CopyPrompt(p) \/ Meeting!ValidateResponse(p)
           \/ \E r \in Briefs \union {Invalid, None} : Meeting!UpdateResponse(p, r)
    PROVE  MeetingsInv'
<1> DEFINE f == briefForm[p]
<1>1. /\ f \in Meeting!Form /\ FormShows(p)
  BY DEF MeetingsInv, Meeting!TypeOK, PageInv
<1>2. CASE Meeting!CopyPrompt(p)
  <2> DEFINE new == [f EXCEPT !.status = "PROMPT_COPIED"]
  <2>1. /\ briefForm' = [briefForm EXCEPT ![p] = new] /\ UNCHANGED <<meeting, page, load, save>>
        /\ f.key # None /\ f.status = "PENDING"
    BY <1>2 DEF Meeting!CopyPrompt, Meeting!SetForm
  <2>2. /\ new \in Meeting!Form /\ new.key = f.key /\ new.mount = f.mount /\ new.valid = f.valid
        /\ new.response = f.response /\ new.error = f.error /\ new.applying = f.applying
        /\ new.status = "PROMPT_COPIED"
    BY <1>1 DEF Meeting!Form, Meeting!Statuses
  <2>3. new.valid => new.response \in Briefs
    BY <1>1, <2>2 DEF FormShows
  <2> HIDE DEF new
  <2>4. QED
    BY <2>1, <2>2, <2>3, FormGoesOn
<1>3. CASE Meeting!ValidateResponse(p)
  <2> DEFINE v == Meeting!Valid(f.response)
             new == [f EXCEPT !.valid = v, !.status = IF v THEN "VALIDATED" ELSE "RESPONSE_RECEIVED"]
  <2>1. /\ briefForm' = [briefForm EXCEPT ![p] = new] /\ UNCHANGED <<meeting, page, load, save>>
        /\ f.key # None /\ f.status # "COMPLETED" /\ ~ f.applying
    BY <1>3 DEF Meeting!ValidateResponse, Meeting!SetForm
  <2>v. v \in BOOLEAN /\ (v => f.response \in Briefs)
    BY DEF Meeting!Valid
  <2> HIDE DEF v
  <2>2. /\ new \in Meeting!Form /\ new.key = f.key /\ new.mount = f.mount /\ new.error = f.error
        /\ new.response = f.response /\ (new.valid => new.response \in Briefs)
        /\ new.status \in {"VALIDATED", "RESPONSE_RECEIVED"}
    BY <1>1, <2>v DEF Meeting!Form, Meeting!Statuses
  <2> HIDE DEF new
  <2>3. QED
    BY <2>1, <2>2, FormGoesOn
<1>4. ASSUME NEW r \in Briefs \union {Invalid, None}, Meeting!UpdateResponse(p, r)
      PROVE  MeetingsInv'
  <2> DEFINE new == [f EXCEPT !.response = r, !.valid = FALSE, !.error = "none",
                              !.status = IF r = None THEN "PENDING" ELSE "RESPONSE_RECEIVED"]
  <2>1. /\ briefForm' = [briefForm EXCEPT ![p] = new] /\ UNCHANGED <<meeting, page, load, save>>
        /\ f.key # None /\ f.status # "COMPLETED" /\ ~ f.applying
    BY <1>4 DEF Meeting!UpdateResponse, Meeting!SetForm
  <2>2. /\ new \in Meeting!Form /\ new.key = f.key /\ new.mount = f.mount /\ new.error = "none"
        /\ ~ new.valid /\ new.status \in {"PENDING", "RESPONSE_RECEIVED"}
    BY <1>1 DEF Meeting!Form, Meeting!Statuses
  <2> HIDE DEF new
  <2>3. QED
    BY <2>1, <2>2, FormGoesOn
<1>5. QED
  BY <1>2, <1>3, <1>4

LEMMA ApplyKeeps ==
    ASSUME Meeting!MeetingsAssumption, MeetingsInv, NEW p \in Pages, Meeting!ApplyResponse(p)
    PROVE  MeetingsInv'
<1> DEFINE f == briefForm[p]
           new == [f EXCEPT !.applying = TRUE, !.error = "none"]
           mount == f.mount
           s == [Meeting!NoSave EXCEPT !.pc = "access", !.ws = f.key, !.brief = f.response]
<1>1. /\ f \in Meeting!Form /\ FormShows(p) /\ briefForm \in [Pages -> Meeting!Form]
      /\ save \in [Pages \X Meeting!Runs -> Meeting!Save]
      /\ page[p] \in Meeting!Page /\ PageShows(p) /\ page[p].run \in 0 .. MountBound
  BY DEF MeetingsInv, Meeting!TypeOK, PageInv, Meeting!Page
<1>2. /\ briefForm' = [briefForm EXCEPT ![p] = new] /\ UNCHANGED <<meeting, page, load>>
      /\ save' = [save EXCEPT ![<<p, mount>>] = s]
      /\ f.key # None /\ f.status # "COMPLETED" /\ ~ f.applying /\ f.valid
  BY DEF Meeting!ApplyResponse, Meeting!SetForm
<1>3. /\ page[p].run = mount /\ ~ page[p].loading /\ page[p].of = f.key
      /\ f.key = page[p].selected
      /\ f.key \in Workspaces /\ f.response \in Briefs /\ Meeting!Renders(page[p])
  <2>1. Meeting!Renders(page[p])
    BY <1>1, <1>2 DEF FormShows, Meeting!NoForm
  <2>2. f.key \in Workspaces
    BY <1>1, <1>2 DEF Meeting!Form
  <2>3. QED
    BY <1>1, <1>2, <2>1, <2>2 DEF FormShows, Meeting!Renders
<1>4. mount \in Meeting!Runs
  <2>1. mount # 0
    BY <1>1, <1>2, <1>3 DEF PageShows
  <2>2. QED
    BY <1>1, <1>3, <2>1 DEF Meeting!Runs, Meeting!MeetingsAssumption
<1>5. /\ s \in Meeting!Save /\ s.pc = "access" /\ s.ws = f.key /\ s.brief = f.response
      /\ s.answer = "none"
  BY <1>3 DEF Meeting!NoSave, Meeting!Save, Meeting!Absent, Meeting!Meeting
<1>6. /\ new \in Meeting!Form /\ new.key = f.key /\ new.mount = mount /\ new.applying
      /\ new.error = "none"
      /\ new.response = f.response /\ new.status = f.status /\ new.valid = f.valid
  BY <1>1 DEF Meeting!Form
<1> HIDE DEF new, s
<1>7. /\ briefForm' \in [Pages -> Meeting!Form] /\ briefForm'[p] = new /\ \A q \in Pages : q # p => briefForm'[q] = briefForm[q]
      /\ save' \in [Pages \X Meeting!Runs -> Meeting!Save]
      /\ \A q \in Pages, r \in Meeting!Runs : save'[q, r] = IF q = p /\ r = mount THEN s ELSE save[q, r]
  BY <1>1, <1>2, <1>4, <1>5, <1>6, OneCall
<1>8. CompletedStays /\ CompletedHasBrief' /\ Meeting!TypeOK'
  BY <1>2, <1>7 DEF MeetingsInv, CompletedStays, CompletedHasBrief, Meeting!TypeOK
<1>9. PageShows(p)'
  BY <1>1, <1>2, <1>3 DEF PageShows, Stands
<1>10. FormShows(p)'
  <2>1. briefForm'[p] = new /\ page'[p] = page[p] /\ meeting' = meeting
    BY <1>2, <1>7
  <2>2. QED
    BY <1>2, <1>3, <1>6, <2>1 DEF FormShows
<1>11. ASSUME NEW r \in Meeting!Runs
       PROVE  LoadAnswer(p, r)' /\ SaveAnswer(p, r)' /\ SaveIsSent(p, r)'
  <2>1. SaveAnswer(p, r) /\ SaveIsSent(p, r)
    BY DEF MeetingsInv, PageInv
  <2>2. LoadAnswer(p, r)'
    BY <1>2, <1>8, LoadKept
  <2>3. CASE r = mount
    <3>1. save'[p, r] = s /\ ~ (r > page'[p].run) /\ ~ page'[p].loading
      <4>1. mount \in Nat
        BY <1>1, <1>3 DEF Meeting!MeetingsAssumption
      <4>2. ~ (r > mount)
        BY <2>3, <4>1
      <4>3. save'[p, r] = s
        BY <1>7, <2>3
      <4>4. page' = page
        BY <1>2
      <4>5. QED
        BY <1>3, <4>2, <4>3, <4>4
    <3>2. SaveAnswer(p, r)'
      BY <1>3, <1>5, <3>1 DEF SaveAnswer
    <3>3. SaveIsSent(p, r)'
      BY <1>2, <1>3, <1>5, <1>6, <1>7, <3>1, ZenonT(60) DEF SaveIsSent
    <3>4. QED
      BY <2>2, <3>2, <3>3
  <2>4. CASE r # mount
    <3>1. save'[p, r] = save[p, r] /\ ~ Meeting!Caller(p, r)'
      BY <1>6, <1>7, <2>4 DEF Meeting!Caller
    <3>2. SaveAnswer(p, r)' /\ SaveIsSent(p, r)'
      BY <1>2, <2>1, <3>1 DEF SaveAnswer, SaveIsSent, Stands, Meeting!Active
    <3>3. QED
      BY <2>2, <3>2
  <2>5. QED
    BY <2>3, <2>4
<1>12. QED
  BY <1>2, <1>7, <1>8, <1>9, <1>10, <1>11, StepKeeps DEF PageInv

\* A save that goes on, with its page as it was.
LEMMA SaveGoesOn ==
    ASSUME Meeting!MeetingsAssumption, MeetingsInv, CompletedStays, CompletedHasBrief',
           meeting' \in [Workspaces -> Meeting!Meeting], UNCHANGED <<page, briefForm, load>>,
           NEW p \in Pages, NEW mount \in Meeting!Runs, NEW new \in Meeting!Save,
           save' = [save EXCEPT ![<<p, mount>>] = new],
           save[p, mount].pc \in {"access", "read", "swap"},
           new.ws = save[p, mount].ws, new.brief = save[p, mount].brief, SaveAnswer(p, mount)'
    PROVE  MeetingsInv'
<1>1. /\ save \in [Pages \X Meeting!Runs -> Meeting!Save] /\ SaveAnswer(p, mount)
      /\ SaveIsSent(p, mount)
  BY DEF MeetingsInv, Meeting!TypeOK, PageInv
<1>2. /\ save' \in [Pages \X Meeting!Runs -> Meeting!Save]
      /\ \A q \in Pages, r \in Meeting!Runs : save'[q, r] = IF q = p /\ r = mount THEN new ELSE save[q, r]
  BY <1>1, OneCall
<1>3. Meeting!TypeOK'
  BY <1>2 DEF MeetingsInv, Meeting!TypeOK
<1>4. /\ save[p, mount].answer = "none" /\ save[p, mount].pc \in Flying
      /\ save[p, mount].pc # "none"
  BY <1>1 DEF SaveAnswer, Flying
<1>5. PageShows(p)' /\ FormShows(p)'
  BY <1>2, <1>4, ShowsKept
<1>6. ASSUME NEW r \in Meeting!Runs
      PROVE  LoadAnswer(p, r)' /\ SaveAnswer(p, r)' /\ SaveIsSent(p, r)'
  <2>1. LoadAnswer(p, r)'
    BY LoadKept
  <2>2. CASE r = mount
    <3>1. SaveIsSent(p, mount)'
      <4>1. save'[p, mount] = new
        BY <1>2
      <4>2. QED
        BY <1>1, <1>4, <4>1 DEF SaveIsSent, Meeting!Active, Meeting!Caller
    <3>2. QED
      BY <2>1, <2>2, <3>1
  <2>3. CASE r # mount
    BY <1>2, <2>1, <2>3, SaveKept
  <2>4. QED
    BY <2>2, <2>3
<1>7. QED
  BY <1>2, <1>3, <1>5, <1>6, StepKeeps DEF PageInv

\* A caller that finds the action completed is told whose brief is on record.
LEMMA FinishAnswers ==
    ASSUME Meeting!MeetingsAssumption, NEW s \in Meeting!Save, NEW row \in Meeting!Meeting
    PROVE  LET new == Meeting!Finish(s, row) IN
           /\ new \in Meeting!Save /\ new.ws = s.ws /\ new.brief = s.brief /\ new.row = row
           /\ new.pc = "answer" /\ new.answer = Meeting!Conflict(row, s.brief)
<1>1. Meeting!Conflict(row, s.brief) \in {"ok", "conflict"}
  BY DEF Meeting!Conflict
<1> DEFINE c == Meeting!Conflict(row, s.brief)
<1> HIDE DEF c
<1>2. /\ c \in {"ok", "conflict"}
      /\ Meeting!Finish(s, row) = [s EXCEPT !.pc = "answer", !.answer = c, !.row = row]
  BY <1>1 DEF c, Meeting!Finish
<1>3. QED
  BY <1>2 DEF Meeting!Save, c

LEMMA ReadKeeps ==
    ASSUME Meeting!MeetingsAssumption, MeetingsInv, NEW p \in Pages, NEW mount \in Meeting!Runs,
           Meeting!ReadAccess(p, mount) \/ Meeting!ReadCurrent(p, mount) \/ Meeting!Swap(p, mount)
    PROVE  MeetingsInv'
<1> DEFINE s == save[p, mount]
           row == meeting[s.ws]
<1>1. /\ s \in Meeting!Save /\ meeting \in [Workspaces -> Meeting!Meeting]
      /\ save \in [Pages \X Meeting!Runs -> Meeting!Save]
      /\ SaveAnswer(p, mount) /\ CompletedHasBrief
  BY DEF MeetingsInv, Meeting!TypeOK, PageInv
<1>2. s.pc \in {"access", "read", "swap"}
  BY DEF Meeting!ReadAccess, Meeting!ReadCurrent, Meeting!Swap
<1>3. s.ws \in Workspaces /\ s.brief \in Briefs /\ s.answer = "none" /\ row \in Meeting!Meeting
  BY <1>1, <1>2 DEF SaveAnswer, Flying
<1>4. UNCHANGED <<page, briefForm, load>>
  BY DEF Meeting!ReadAccess, Meeting!ReadCurrent, Meeting!Swap, Meeting!SetSave
\* The action is completed: this step or an earlier one answers.
<1>5. CASE row.status = "COMPLETED"
  <2> DEFINE new == Meeting!Finish(s, row)
  <2>1. save' = [save EXCEPT ![<<p, mount>>] = new] /\ meeting' = meeting
    BY <1>5 DEF Meeting!ReadAccess, Meeting!ReadCurrent, Meeting!Swap, Meeting!SetSave,
       Meeting!Matches
  <2>2. /\ new \in Meeting!Save /\ new.ws = s.ws /\ new.brief = s.brief /\ new.row = row
        /\ new.pc = "answer" /\ new.answer = Meeting!Conflict(row, s.brief)
    BY <1>1, <1>3, FinishAnswers
  <2> HIDE DEF new
  <2>3. save'[p, mount] = new
    BY <1>1, <2>1
  <2>4. SaveAnswer(p, mount)'
    BY <1>3, <1>5, <2>1, <2>2, <2>3 DEF SaveAnswer, Stands, Meeting!Conflict, Meeting!Same
  <2>5. CompletedStays /\ CompletedHasBrief' /\ meeting' \in [Workspaces -> Meeting!Meeting]
    BY <1>1, <2>1 DEF CompletedStays, CompletedHasBrief
  <2>6. QED
    BY <1>2, <1>4, <2>1, <2>2, <2>4, <2>5, SaveGoesOn
<1>6. CASE row.status # "COMPLETED" /\ ~ Meeting!Swap(p, mount)
  <2>1. PICK pc \in {"read", "swap"} : save' = [save EXCEPT ![<<p, mount>>] = [s EXCEPT !.pc = pc]]
    BY <1>6 DEF Meeting!ReadAccess, Meeting!ReadCurrent, Meeting!SetSave
  <2>2. meeting' = meeting
    BY <1>6 DEF Meeting!ReadAccess, Meeting!ReadCurrent
  <2> DEFINE new == [s EXCEPT !.pc = pc]
  <2>3. /\ new \in Meeting!Save /\ new.ws = s.ws /\ new.brief = s.brief /\ new.pc = pc
        /\ new.answer = s.answer
    BY <1>1 DEF Meeting!Save
  <2> HIDE DEF new
  <2>4. save' = [save EXCEPT ![<<p, mount>>] = new] /\ save'[p, mount] = new
    BY <1>1, <2>1 DEF new
  <2>5. SaveAnswer(p, mount)'
    BY <1>3, <2>3, <2>4 DEF SaveAnswer
  <2>6. CompletedStays /\ CompletedHasBrief' /\ meeting' \in [Workspaces -> Meeting!Meeting]
    BY <1>1, <2>2 DEF CompletedStays, CompletedHasBrief
  <2>7. QED
    BY <1>2, <1>4, <2>3, <2>4, <2>5, <2>6, SaveGoesOn
\* The compare-and-set: the row was not completed, so none is that others stand on.
<1>7. CASE row.status # "COMPLETED" /\ Meeting!Swap(p, mount)
  <2> DEFINE done == [status |-> "COMPLETED", response |-> s.brief, brief |-> s.brief, state |-> "READY"]
             new == [s EXCEPT !.pc = "answer", !.answer = "ok", !.row = done]
  <2>1. /\ meeting' = [meeting EXCEPT ![s.ws] = done]
        /\ save' = [save EXCEPT ![<<p, mount>>] = new]
    BY <1>7 DEF Meeting!Swap, Meeting!Matches, Meeting!SetSave
  <2>2. /\ done \in Meeting!Meeting /\ done.status = "COMPLETED" /\ done.brief = s.brief
        /\ done.response = s.brief
    BY <1>3 DEF Meeting!Meeting
  <2> HIDE DEF done
  <2>3. /\ new \in Meeting!Save /\ new.ws = s.ws /\ new.brief = s.brief /\ new.row = done
        /\ new.pc = "answer" /\ new.answer = "ok"
    BY <1>1, <2>2 DEF Meeting!Save
  <2> HIDE DEF new
  <2>4. /\ save'[p, mount] = new /\ meeting'[s.ws] = done
        /\ meeting' \in [Workspaces -> Meeting!Meeting]
    BY <1>1, <1>3, <2>1, <2>2
  <2>5. SaveAnswer(p, mount)'
    BY <1>3, <2>2, <2>3, <2>4 DEF SaveAnswer, Stands, Meeting!Conflict, Meeting!Same
  <2>6. CompletedStays /\ CompletedHasBrief'
    BY <1>1, <1>3, <1>7, <2>1, <2>2 DEF CompletedStays, CompletedHasBrief
  <2>7. QED
    BY <1>2, <1>4, <2>1, <2>3, <2>4, <2>5, <2>6, SaveGoesOn
<1>8. QED
  BY <1>5, <1>6, <1>7

LEMMA RunsArePositive ==
    ASSUME Meeting!MeetingsAssumption
    PROVE  \A mount \in Meeting!Runs : mount > 0
BY DEF Meeting!Runs, Meeting!MeetingsAssumption

\* A save that ended was sent by this page, in a run of its effect that is over or loaded.
LEMMA EndedSave ==
    ASSUME Meeting!MeetingsAssumption, MeetingsInv, NEW p \in Pages, NEW mount \in Meeting!Runs, save[p, mount].pc # "none"
    PROVE  /\ page[p].run # 0 /\ ~ (mount > page[p].run) /\ ~ (mount = page[p].run /\ page[p].loading)
           /\ page[p].selected # None
<1>1. SaveIsSent(p, mount) /\ PageShows(p) /\ page[p].run \in 0 .. MountBound
  BY DEF MeetingsInv, PageInv, Meeting!TypeOK, Meeting!Page
<1>2. ~ (mount > page[p].run) /\ ~ (mount = page[p].run /\ page[p].loading)
  BY <1>1 DEF SaveIsSent
<1>3. page[p].run # 0
  <2>1. ~ (mount > page[p].run)
    BY <1>2
  <2>2. mount > 0
    BY RunsArePositive
  <2>3. QED
    BY <2>1, <2>2
<1>4. QED
  BY <1>1, <1>2, <1>3 DEF PageShows

LEMMA SaveSucceedsKeeps ==
    ASSUME Meeting!MeetingsAssumption, MeetingsInv, NEW p \in Pages, NEW mount \in Meeting!Runs, Meeting!SaveSucceeds(p, mount)
    PROVE  MeetingsInv'
<1> DEFINE s == save[p, mount]
           pg == [page[p] EXCEPT !.of = s.ws, !.row = s.row]
           done == [briefForm[p] EXCEPT !.status = "COMPLETED", !.brief = s.brief, !.applying = FALSE]
           f == IF Meeting!Caller(p, mount) THEN done ELSE briefForm[p]
           new == [s EXCEPT !.pc = "ended"]
<1>1. /\ s \in Meeting!Save /\ meeting \in [Workspaces -> Meeting!Meeting]
      /\ save \in [Pages \X Meeting!Runs -> Meeting!Save]
      /\ page[p] \in Meeting!Page /\ briefForm[p] \in Meeting!Form
      /\ load \in [Pages \X Meeting!Runs -> Meeting!Load]
      /\ SaveAnswer(p, mount) /\ CompletedHasBrief /\ PageShows(p) /\ FormShows(p)
  BY DEF MeetingsInv, Meeting!TypeOK, PageInv
<1>2. /\ save' = [save EXCEPT ![<<p, mount>>] = new] /\ UNCHANGED <<meeting, load>>
      /\ Meeting!SetPage(p, pg, f) /\ s.pc = "answer" /\ s.answer = "ok"
  BY DEF Meeting!SaveSucceeds
<1>3. /\ s.ws \in Workspaces /\ s.ws # None /\ s.brief \in Briefs
      /\ s.row.status = "COMPLETED" /\ s.row = meeting[s.ws] /\ s.row.brief = s.brief
  BY <1>1, <1>2 DEF SaveAnswer, Flying, Stands, Meeting!Conflict, Meeting!Same,
     Meeting!MeetingsAssumption
<1>4. /\ page[p].run # 0 /\ ~ (mount > page[p].run)
      /\ ~ (mount = page[p].run /\ page[p].loading)
      /\ page[p].selected # None
  BY <1>2, EndedSave
<1>5. /\ new \in Meeting!Save /\ new.pc = "ended" /\ new.ws = s.ws /\ new.answer = "ok"
      /\ pg \in Meeting!Page /\ pg.of = s.ws /\ pg.row = s.row /\ pg.run = page[p].run
      /\ pg.loading = page[p].loading /\ pg.selected = page[p].selected
      /\ pg.error = page[p].error
  <2>1. new \in Meeting!Save /\ new.pc = "ended" /\ new.ws = s.ws /\ new.answer = "ok"
    BY <1>1, <1>2 DEF Meeting!Save
  <2>2. s.row \in Meeting!Meeting
    BY <1>1 DEF Meeting!Save
  <2>3. QED
    BY <1>1, <1>3, <2>1, <2>2 DEF Meeting!Page
<1>6. /\ f \in Meeting!Form /\ f.key = briefForm[p].key /\ f.mount = briefForm[p].mount
      /\ f.response = briefForm[p].response
      /\ f.error = briefForm[p].error /\ f.valid = briefForm[p].valid
      /\ Meeting!Caller(p, mount) => f.status = "COMPLETED" /\ f.brief = s.brief
      /\ ~ Meeting!Caller(p, mount) => f = briefForm[p]
  <2>1. /\ done \in Meeting!Form /\ done.key = briefForm[p].key
        /\ done.mount = briefForm[p].mount
        /\ done.response = briefForm[p].response /\ done.error = briefForm[p].error
        /\ done.valid = briefForm[p].valid
        /\ done.status = "COMPLETED" /\ done.brief = s.brief
    BY <1>1, <1>3 DEF Meeting!Form, Meeting!Statuses
  <2> HIDE DEF done
  <2>2. QED
    BY <1>1, <2>1
<1> HIDE DEF pg, f, new
<1>7. /\ save' \in [Pages \X Meeting!Runs -> Meeting!Save]
      /\ \A q \in Pages, r \in Meeting!Runs : save'[q, r] = IF q = p /\ r = mount THEN new ELSE save[q, r]
  BY <1>1, <1>2, <1>5, OneCall
<1>8. /\ page' \in [Pages -> Meeting!Page] /\ briefForm' \in [Pages -> Meeting!Form]
      /\ page'[p] = pg
      /\ briefForm'[p] = Meeting!Rendered(f, pg)
      /\ \A q \in Pages : q # p => page'[q] = page[q] /\ briefForm'[q] = briefForm[q]
      /\ ~ Meeting!Renders(pg) => briefForm'[p] = Meeting!NoForm
      /\ Meeting!Renders(pg) => briefForm'[p].key = pg.of /\ briefForm'[p].mount = pg.run
  BY <1>2, <1>3, <1>5, <1>6, OnePage DEF MeetingsInv
<1>9. CompletedStays /\ CompletedHasBrief' /\ Meeting!TypeOK'
  BY <1>1, <1>2, <1>7, <1>8 DEF CompletedStays, CompletedHasBrief, Meeting!TypeOK
<1>10. PageShows(p)'
  <2>1. save'[p, mount].ws = pg.of /\ save'[p, mount].answer = "ok"
    BY <1>5, <1>7
  <2>2. QED
    BY <1>2, <1>3, <1>4, <1>5, <1>8, <2>1 DEF PageShows, Stands
\* The form stays mounted for the meeting saved, or is mounted for it, completed.
<1>11. Meeting!Renders(pg) =>
          \/ briefForm'[p] = f /\ f.key = s.ws /\ f.mount = pg.run
          \/ briefForm'[p] = Meeting!Mounted(pg)
  BY <1>5, <1>8 DEF Meeting!Rendered
<1> DEFINE g == Meeting!Mounted(pg)
<1>12. Meeting!Renders(pg) =>
          /\ g.key = pg.of /\ g.mount = pg.run /\ ~ g.valid /\ g.error = "none"
          /\ g.response = None
          /\ g.status = "COMPLETED" /\ g.brief = meeting[pg.of].brief
  <2>1. pg.row.status = "COMPLETED" /\ pg.row = meeting[pg.of]
    BY <1>3, <1>5
  <2>2. QED
    BY <1>5, <2>1, MountedShows
<1> HIDE DEF g
<1>13. FormShows(p)'
  <2>1. CASE ~ Meeting!Renders(pg)
    <3>1. /\ Meeting!NoForm.key = None /\ Meeting!NoForm.status = "PENDING"
          /\ Meeting!NoForm.error = "none" /\ ~ Meeting!NoForm.valid
      BY DEF Meeting!NoForm
    <3>2. QED
      BY <1>8, <2>1, <3>1 DEF FormShows
  <2>2. CASE Meeting!Renders(pg) /\ briefForm'[p] = g
    <3>1. /\ briefForm'[p].key = pg.of /\ briefForm'[p].mount = pg.run
          /\ briefForm'[p].error = "none" /\ ~ briefForm'[p].valid
          /\ briefForm'[p].status = "COMPLETED" /\ briefForm'[p].brief = meeting[pg.of].brief
      BY <1>12, <2>2
    <3>2. /\ pg.of # None /\ meeting[pg.of].status = "COMPLETED" /\ meeting' = meeting
          /\ page'[p] = pg
      BY <1>2, <1>3, <1>5, <1>8
    <3>3. QED
      BY <2>2, <3>1, <3>2 DEF FormShows
  <2>3. CASE Meeting!Renders(pg) /\ briefForm'[p] = f /\ f.key = s.ws /\ f.mount = pg.run
    <3>1. f.valid => f.response \in Briefs
      BY <1>1, <1>6 DEF FormShows
    <3>2. f.key \notin {None, page[p].selected} => f.status = "COMPLETED"
      BY <1>1, <1>6 DEF FormShows
    <3>3. f.status = "COMPLETED" => f.brief = meeting[f.key].brief
      BY <1>1, <1>3, <1>6, <2>3 DEF FormShows
    <3>4. f.error = "conflict" => meeting[f.key].brief # f.response
      BY <1>1, <1>6 DEF FormShows
    <3>5. QED
      BY <1>2, <1>3, <1>5, <1>8, <2>3, <3>1, <3>2, <3>3, <3>4 DEF FormShows
  <2>4. QED
    BY <1>11, <2>1, <2>2, <2>3 DEF g
<1>14. ASSUME NEW r \in Meeting!Runs
       PROVE  LoadAnswer(p, r)' /\ SaveAnswer(p, r)' /\ SaveIsSent(p, r)'
  <2>1. LoadAnswer(p, r) /\ SaveAnswer(p, r) /\ SaveIsSent(p, r)
    BY DEF MeetingsInv, PageInv
  <2>2. LoadAnswer(p, r)'
    BY <1>2, <1>5, <1>8, <2>1 DEF LoadAnswer, Meeting!Active, Stands
  <2>3. CASE r = mount
    BY <1>4, <1>5, <1>7, <1>8, <2>2, <2>3 DEF SaveAnswer, SaveIsSent, Flying
  <2>4. CASE r # mount
    <3>1. save'[p, r] = save[p, r]
      BY <1>7, <2>4
    <3>2. SaveAnswer(p, r)'
      BY <1>2, <2>1, <3>1 DEF SaveAnswer, Stands
    <3>3. ASSUME save[p, r].pc \in Flying, Meeting!Caller(p, r)'
          PROVE  \/ briefForm'[p].applying /\ briefForm'[p].response = save[p, r].brief
                 \/ briefForm'[p].status = "COMPLETED" /\ briefForm'[p].response = None
      <4>1. briefForm'[p].key = save[p, r].ws /\ briefForm'[p].mount = r /\ save[p, r].ws # None
        BY <2>1, <3>1, <3>3 DEF Meeting!Caller, SaveAnswer, Meeting!MeetingsAssumption
      <4>2. Meeting!Renders(pg)
        <5>1. Meeting!NoForm.key = None
          BY DEF Meeting!NoForm
        <5>2. QED
          BY <1>8, <4>1, <5>1
      <4>3. CASE briefForm'[p] = f
        <5>1. Meeting!Caller(p, r) /\ ~ Meeting!Caller(p, mount)
          BY <1>6, <2>4, <4>1, <4>3 DEF Meeting!Caller
        <5>2. QED
          BY <1>6, <2>1, <3>3, <4>3, <5>1 DEF SaveIsSent
      <4>4. CASE briefForm'[p] = g
        BY <1>12, <4>2, <4>4
      <4>5. QED
        BY <1>11, <4>2, <4>3, <4>4 DEF g
    <3>4. SaveIsSent(p, r)'
      BY <1>5, <1>8, <2>1, <3>1, <3>3 DEF SaveIsSent, Meeting!Active
    <3>5. QED
      BY <2>2, <3>2, <3>4
  <2>5. QED
    BY <2>3, <2>4
<1>15. QED
  BY <1>2, <1>7, <1>8, <1>9, <1>10, <1>13, <1>14, StepKeeps DEF PageInv

LEMMA SaveFailsKeeps ==
    ASSUME Meeting!MeetingsAssumption, MeetingsInv, NEW p \in Pages, NEW mount \in Meeting!Runs,
           NEW error \in {"lost", "conflict"}, Meeting!SaveFails(p, mount, error)
    PROVE  MeetingsInv'
<1> DEFINE s == save[p, mount]
           failed == [briefForm[p] EXCEPT !.error = error, !.status = "VALIDATED", !.applying = FALSE]
           f == IF Meeting!Caller(p, mount) THEN failed ELSE briefForm[p]
           new == [s EXCEPT !.pc = "ended"]
<1>1. /\ s \in Meeting!Save /\ meeting \in [Workspaces -> Meeting!Meeting]
      /\ save \in [Pages \X Meeting!Runs -> Meeting!Save]
      /\ page[p] \in Meeting!Page /\ briefForm[p] \in Meeting!Form
      /\ briefForm \in [Pages -> Meeting!Form]
      /\ SaveAnswer(p, mount) /\ SaveIsSent(p, mount) /\ CompletedHasBrief /\ PageShows(p)
      /\ FormShows(p)
  BY DEF MeetingsInv, Meeting!TypeOK, PageInv
<1>2. /\ save' = [save EXCEPT ![<<p, mount>>] = new] /\ UNCHANGED <<meeting, page, load>>
      /\ s.pc \in Flying
      /\ error = "conflict" => s.pc = "answer" /\ s.answer = "conflict"
  BY DEF Meeting!SaveFails, Flying
<1>3. s.ws \in Workspaces /\ s.ws # None /\ s.brief \in Briefs /\ s.pc # "none"
  BY <1>1, <1>2 DEF SaveAnswer, Flying, Meeting!MeetingsAssumption
<1>4. /\ page[p].run # 0 /\ ~ (mount > page[p].run)
      /\ ~ (mount = page[p].run /\ page[p].loading)
  BY <1>3, EndedSave
<1>5. new \in Meeting!Save /\ new.pc = "ended" /\ new.ws = s.ws /\ new.answer = s.answer
  BY <1>1 DEF Meeting!Save
<1>6. /\ f \in Meeting!Form /\ f.key = briefForm[p].key /\ f.mount = briefForm[p].mount
      /\ f.response = briefForm[p].response
      /\ f.valid = briefForm[p].valid
      /\ Meeting!Caller(p, mount) => f.status = "VALIDATED" /\ f.error = error
      /\ ~ Meeting!Caller(p, mount) => f = briefForm[p]
  <2>1. /\ failed \in Meeting!Form /\ failed.key = briefForm[p].key
        /\ failed.mount = briefForm[p].mount
        /\ failed.response = briefForm[p].response /\ failed.error = error
        /\ failed.valid = briefForm[p].valid
        /\ failed.status = "VALIDATED"
    BY <1>1 DEF Meeting!Form, Meeting!Statuses
  <2> HIDE DEF failed
  <2>2. QED
    BY <1>1, <2>1
<1>7. briefForm' \in [Pages -> Meeting!Form] /\ briefForm'[p] = f /\ \A q \in Pages : q # p => briefForm'[q] = briefForm[q]
  <2>1. briefForm' = [briefForm EXCEPT ![p] = f]
    BY <1>1 DEF Meeting!SaveFails
  <2> HIDE DEF f
  <2>2. QED
    BY <1>1, <1>6, <2>1
<1> HIDE DEF f, new
<1>8. /\ save' \in [Pages \X Meeting!Runs -> Meeting!Save]
      /\ \A q \in Pages, r \in Meeting!Runs : save'[q, r] = IF q = p /\ r = mount THEN new ELSE save[q, r]
  BY <1>1, <1>2, <1>5, OneCall
<1>9. CompletedStays /\ CompletedHasBrief' /\ Meeting!TypeOK'
  BY <1>1, <1>2, <1>7, <1>8 DEF MeetingsInv, CompletedStays, CompletedHasBrief, Meeting!TypeOK
<1>10. PageShows(p)'
  <2>1. \A r \in Meeting!Runs : save'[p, r].ws = save[p, r].ws /\ save'[p, r].answer = save[p, r].answer
    BY <1>5, <1>8
  <2>2. page'[p] = page[p]
    BY <1>2
  <2>3. QED
    BY <1>9, <2>1, <2>2, PageKept
<1>11. FormShows(p)'
  <2>1. CASE Meeting!Caller(p, mount)
    <3>1. briefForm[p].key = s.ws /\ briefForm[p].mount = mount /\ Meeting!Renders(page[p])
      <4>1. briefForm[p].key = s.ws /\ briefForm[p].mount = mount /\ Meeting!NoForm.key = None
        BY <2>1 DEF Meeting!Caller, Meeting!NoForm
      <4>2. QED
        BY <1>1, <1>3, <4>1 DEF FormShows
    <3>2. s.ws = page[p].selected
      BY <1>1, <1>2, <3>1 DEF FormShows, SaveIsSent, Meeting!Active
    <3>3. briefForm[p].response \in {s.brief, None}
      BY <1>1, <1>2, <2>1 DEF SaveIsSent
    <3>4. error = "conflict" => meeting[s.ws].status = "COMPLETED" /\ meeting[s.ws].brief # briefForm[p].response
      <4>1. SUFFICES ASSUME error = "conflict" PROVE  meeting[s.ws].status = "COMPLETED" /\ meeting[s.ws].brief # briefForm[p].response
        OBVIOUS
      <4>2. s.row = meeting[s.ws] /\ s.row.status = "COMPLETED" /\ s.row.brief # s.brief
        BY <1>1, <1>2, <4>1 DEF SaveAnswer, Stands, Meeting!Conflict, Meeting!Same
      <4>3. meeting[s.ws].brief \in Briefs
        BY <1>1, <1>3, <4>2 DEF CompletedHasBrief
      <4>4. QED
        BY <3>3, <4>2, <4>3 DEF Meeting!MeetingsAssumption
    <3>5. QED
      BY <1>1, <1>2, <1>3, <1>6, <1>7, <2>1, <3>1, <3>2, <3>4, ZenonT(60) DEF FormShows
  <2>2. CASE ~ Meeting!Caller(p, mount)
    BY <1>1, <1>2, <1>6, <1>7, <2>2 DEF FormShows
  <2>3. QED
    BY <2>1, <2>2
<1>12. ASSUME NEW r \in Meeting!Runs
       PROVE  LoadAnswer(p, r)' /\ SaveAnswer(p, r)' /\ SaveIsSent(p, r)'
  <2>1. LoadAnswer(p, r) /\ SaveAnswer(p, r) /\ SaveIsSent(p, r)
    BY DEF MeetingsInv, PageInv
  <2>2. LoadAnswer(p, r)'
    BY <1>2, <1>9, LoadKept
  <2>3. CASE r = mount
    BY <1>2, <1>4, <1>5, <1>8, <2>2, <2>3 DEF SaveAnswer, SaveIsSent, Flying
  <2>4. CASE r # mount
    <3>1. save'[p, r] = save[p, r]
      BY <1>8, <2>4
    <3>2. SaveAnswer(p, r)'
      BY <1>2, <2>1, <3>1 DEF SaveAnswer, Stands
    <3>3. Meeting!Caller(p, r)' => Meeting!Caller(p, r) /\ (s.ws # None => briefForm'[p] = briefForm[p])
      BY <1>6, <1>7, <2>4, <3>1 DEF Meeting!Caller
    <3>4. SaveIsSent(p, r)'
      BY <1>2, <1>3, <2>1, <3>1, <3>3 DEF SaveIsSent, Meeting!Active
    <3>5. QED
      BY <2>2, <3>2, <3>4
  <2>5. QED
    BY <2>3, <2>4
<1>13. QED
  BY <1>2, <1>7, <1>8, <1>9, <1>10, <1>11, <1>12, StepKeeps DEF PageInv

-----------------------------------------------------------------------------
(* The invariant of the specification *)

LEMMA MeetingInit == ASSUME Meeting!MeetingsAssumption, Meeting!Init PROVE MeetingsInv
<1>1. /\ Meeting!Absent \in Meeting!Meeting /\ Meeting!Absent.status = "ABSENT"
      /\ Meeting!Absent.state = "NONE"
  BY DEF Meeting!Absent, Meeting!Meeting
<1>2. /\ Meeting!NoForm \in Meeting!Form /\ Meeting!NoForm.key = None
      /\ Meeting!NoForm.status = "PENDING" /\ Meeting!NoForm.error = "none"
      /\ ~ Meeting!NoForm.valid
  BY DEF Meeting!NoForm, Meeting!Form, Meeting!Statuses, Meeting!MeetingsAssumption
<1>3. Meeting!NoLoad \in Meeting!Load /\ Meeting!NoLoad.pc = "none"
  BY <1>1 DEF Meeting!NoLoad, Meeting!Load
<1>4. /\ Meeting!NoSave \in Meeting!Save /\ Meeting!NoSave.pc = "none"
      /\ Meeting!NoSave.answer = "none"
  BY <1>1 DEF Meeting!NoSave, Meeting!Save
<1>5. Meeting!TypeOK
  <2>1. page \in [Pages -> Meeting!Page]
    BY <1>1 DEF Meeting!Init, Meeting!Page, Meeting!MeetingsAssumption
  <2>2. QED
    BY <1>1, <1>2, <1>3, <1>4, <2>1 DEF Meeting!Init, Meeting!TypeOK
<1>6. CompletedHasBrief
  BY <1>1 DEF Meeting!Init, CompletedHasBrief
<1>7. ASSUME NEW p \in Pages PROVE PageInv(p)
  <2>1. /\ page[p].of = None /\ page[p].run = 0 /\ ~ page[p].error /\ ~ page[p].loading
        /\ briefForm[p] = Meeting!NoForm /\ \A r \in Meeting!Runs : load[p, r] = Meeting!NoLoad /\ save[p, r] = Meeting!NoSave
    BY DEF Meeting!Init
  <2>2. PageShows(p) /\ FormShows(p)
    BY <1>2, <2>1 DEF PageShows, FormShows, Meeting!Renders
  <2>3. \A r \in Meeting!Runs : LoadAnswer(p, r) /\ SaveAnswer(p, r) /\ SaveIsSent(p, r)
    BY <1>3, <1>4, <2>1 DEF LoadAnswer, SaveAnswer, SaveIsSent, Flying
  <2>4. QED
    BY <2>2, <2>3 DEF PageInv
<1>8. QED
  BY <1>5, <1>6, <1>7 DEF MeetingsInv

LEMMA MeetingNextKeeps ==
    ASSUME Meeting!MeetingsAssumption, MeetingsInv, [Meeting!Next]_(Meeting!vars)
    PROVE  MeetingsInv'
<1>1. CASE UNCHANGED Meeting!vars
  <2>1. /\ UNCHANGED <<meeting, page, briefForm, load, save>> /\ CompletedStays
        /\ CompletedHasBrief' /\ Meeting!TypeOK'
    BY <1>1 DEF Meeting!vars, CompletedStays, MeetingsInv, CompletedHasBrief, Meeting!TypeOK
  <2>2. \A q \in Pages : PageInv(q)'
    BY <2>1, ShowsKept, LoadKept, SaveKept DEF PageInv
  <2>3. QED
    BY <2>1, <2>2 DEF MeetingsInv
<1>2. ASSUME NEW p \in Pages,
             \/ Meeting!Retry(p) \/ Meeting!CopyPrompt(p) \/ Meeting!ValidateResponse(p) \/ Meeting!ApplyResponse(p)
             \/ \E w \in Workspaces : Meeting!Select(p, w)
             \/ \E r \in Briefs \union {Invalid, None} : Meeting!UpdateResponse(p, r)
             \/ \E mount \in Meeting!Runs : Meeting!LoadStep(p, mount) \/ Meeting!SaveStep(p, mount)
      PROVE  MeetingsInv'
  <2>1. CASE Meeting!Retry(p)
    <3>1. page[p].selected \in Workspaces /\ Meeting!StartLoad(p, page[p].selected)
      <4>1. PageShows(p) /\ page[p] \in Meeting!Page
        BY DEF MeetingsInv, PageInv, Meeting!TypeOK
      <4>2. QED
        BY <2>1, <4>1 DEF Meeting!Retry, PageShows, Meeting!Page
    <3>2. QED
      BY <3>1, StartLoadKeeps
  <2>2. CASE \E w \in Workspaces : Meeting!Select(p, w)
    BY <2>2, StartLoadKeeps DEF Meeting!Select
  <2>3. CASE Meeting!CopyPrompt(p) \/ Meeting!ValidateResponse(p) \/ \E r \in Briefs \union {Invalid, None} : Meeting!UpdateResponse(p, r)
    BY <2>3, FormKeeps
  <2>4. CASE Meeting!ApplyResponse(p)
    BY <2>4, ApplyKeeps
  <2>5. ASSUME NEW mount \in Meeting!Runs, Meeting!LoadStep(p, mount) PROVE MeetingsInv'
    BY <2>5, ListKeeps, LoadEndKeeps DEF Meeting!LoadStep
  <2>6. ASSUME NEW mount \in Meeting!Runs, Meeting!SaveStep(p, mount) PROVE MeetingsInv'
    BY <2>6, ReadKeeps, SaveSucceedsKeeps, SaveFailsKeeps DEF Meeting!SaveStep
  <2>7. QED
    BY <1>2, <2>1, <2>2, <2>3, <2>4, <2>5, <2>6
<1>3. QED
  BY <1>1, <1>2 DEF Meeting!Next

LEMMA MeetingInvariance == ASSUME Meeting!MeetingsAssumption PROVE Meeting!Spec => []MeetingsInv
<1>1. Meeting!Init => MeetingsInv
  BY MeetingInit
<1>2. MeetingsInv /\ [Meeting!Next]_(Meeting!vars) => MeetingsInv'
  BY MeetingNextKeeps
<1>3. QED
  BY <1>1, <1>2, PTL DEF Meeting!Spec

LEMMA MeetingsInvMeans ==
    ASSUME MeetingsInv
    PROVE  /\ Meeting!TypeOK /\ Meeting!UnlockedIsSaved
           /\ Meeting!ConflictIsReal /\ Meeting!StaleLoadIsIgnored
<1>1. Meeting!TypeOK
  BY DEF MeetingsInv
<1>2. Meeting!UnlockedIsSaved /\ Meeting!ConflictIsReal
  BY DEF MeetingsInv, PageInv, FormShows, Meeting!UnlockedIsSaved, Meeting!ConflictIsReal
<1>3. Meeting!StaleLoadIsIgnored
  BY DEF MeetingsInv, PageInv, PageShows, Meeting!StaleLoadIsIgnored
<1>4. QED
  BY <1>1, <1>2, <1>3

\* The meetings, the pages and the calls on their way keep their shapes.
THEOREM MeetingTypeCorrect ==
    ASSUME Meeting!MeetingsAssumption
    PROVE  Meeting!Spec => []Meeting!TypeOK
BY MeetingsInvMeans, MeetingInvariance, PTL

\* completeMeetingBriefAction and OliviaMeetingBriefAction: a form that says
\* "Durably saved" shows the brief on record, whoever else saved meanwhile.
THEOREM UnlockedIsSavedHolds ==
    ASSUME Meeting!MeetingsAssumption
    PROVE  Meeting!Spec => []Meeting!UnlockedIsSaved
BY MeetingsInvMeans, MeetingInvariance, PTL

\* The 409 of completeMeetingBriefAction: a form is told of a conflict only when
\* another brief than its own is on record.
THEOREM ConflictIsRealHolds ==
    ASSUME Meeting!MeetingsAssumption
    PROVE  Meeting!Spec => []Meeting!ConflictIsReal
BY MeetingsInvMeans, MeetingInvariance, PTL

\* The cleanup of the page's effect: an answer to a load of a workspace the page
\* has left changes nothing on it.
THEOREM StaleLoadIsIgnoredHolds ==
    ASSUME Meeting!MeetingsAssumption
    PROVE  Meeting!Spec => []Meeting!StaleLoadIsIgnored
BY MeetingsInvMeans, MeetingInvariance, PTL

\* The meetings are written by the insert and by the compare-and-set only.
LEMMA OnlyTwoWrite ==
    ASSUME [Meeting!Next]_(Meeting!vars)
    PROVE  \/ meeting' = meeting
           \/ \E p \in Pages, mount \in Meeting!Runs : Meeting!CreateMeeting(p, mount) \/ Meeting!Swap(p, mount)
<1>1. CASE UNCHANGED Meeting!vars
  BY <1>1 DEF Meeting!vars
<1>2. CASE Meeting!Next
  <2>1. ASSUME NEW p \in Pages,
               \/ Meeting!Retry(p) \/ Meeting!CopyPrompt(p) \/ Meeting!ValidateResponse(p) \/ Meeting!ApplyResponse(p)
               \/ \E w \in Workspaces : Meeting!Select(p, w)
               \/ \E r \in Briefs \union {Invalid, None} : Meeting!UpdateResponse(p, r)
        PROVE  meeting' = meeting
    BY <2>1 DEF Meeting!Retry, Meeting!CopyPrompt, Meeting!ValidateResponse,
       Meeting!ApplyResponse, Meeting!Select, Meeting!UpdateResponse, Meeting!StartLoad,
       Meeting!SetForm
  <2>2. ASSUME NEW p \in Pages, NEW mount \in Meeting!Runs, Meeting!LoadStep(p, mount) \/ Meeting!SaveStep(p, mount),
               ~ Meeting!CreateMeeting(p, mount), ~ Meeting!Swap(p, mount)
        PROVE  meeting' = meeting
    BY <2>2 DEF Meeting!LoadStep, Meeting!SaveStep, Meeting!ListMeetings, Meeting!LoadAnswers,
       Meeting!LoadFails, Meeting!ReadAccess, Meeting!ReadCurrent,
                Meeting!SaveSucceeds, Meeting!SaveFails
  <2>3. QED
    BY <1>2, <2>1, <2>2 DEF Meeting!Next
<1>3. QED
  BY <1>1, <1>2

LEMMA StepKeepsBrief ==
    ASSUME Meeting!MeetingsAssumption, MeetingsInv, MeetingsInv', [Meeting!Next]_(Meeting!vars)
    PROVE  Meeting!BriefIsFinal
<1>1. CASE meeting' = meeting
  BY <1>1 DEF Meeting!BriefIsFinal, MeetingsInv, CompletedHasBrief
<1>2. ASSUME NEW p \in Pages, NEW mount \in Meeting!Runs, Meeting!CreateMeeting(p, mount)
      PROVE  Meeting!BriefIsFinal
  <2> DEFINE w == load[p, mount].ws
             row == IF Meeting!Taken(w) THEN meeting[w] ELSE Meeting!NewMeeting
  <2>1. w \in Workspaces /\ meeting \in [Workspaces -> Meeting!Meeting]
    BY <1>2 DEF MeetingsInv, PageInv, LoadAnswer, Meeting!CreateMeeting, Meeting!TypeOK
  <2>2. meeting' = [meeting EXCEPT ![w] = row]
    BY <1>2 DEF Meeting!CreateMeeting
  <2>3. /\ row.status # "ABSENT"
        /\ meeting[w].status = "COMPLETED" => row = meeting[w]
    BY DEF Meeting!Taken, Meeting!NewMeeting
  <2> HIDE DEF row
  <2>4. QED
    BY <2>1, <2>2, <2>3 DEF Meeting!BriefIsFinal, MeetingsInv, CompletedHasBrief
<1>3. ASSUME NEW p \in Pages, NEW mount \in Meeting!Runs, Meeting!Swap(p, mount)
      PROVE  Meeting!BriefIsFinal
  <2> DEFINE s == save[p, mount]
             row == [status |-> "COMPLETED", response |-> s.brief, brief |-> s.brief, state |-> "READY"]
  <2>1. s.ws \in Workspaces /\ meeting \in [Workspaces -> Meeting!Meeting]
    BY <1>3 DEF MeetingsInv, PageInv, SaveAnswer, Meeting!Swap, Meeting!TypeOK, Flying
  <2>2. CASE meeting[s.ws].status = "COMPLETED"
    <3>1. meeting' = meeting
      BY <1>3, <2>2 DEF Meeting!Swap, Meeting!Matches
    <3>2. QED
      BY <1>1, <3>1
  <2>3. CASE meeting[s.ws].status # "COMPLETED"
    <3>1. meeting' = [meeting EXCEPT ![s.ws] = row]
      BY <1>3, <2>3 DEF Meeting!Swap, Meeting!Matches
    <3>2. row.status = "COMPLETED" /\ row.brief = row.response
      OBVIOUS
    <3> HIDE DEF row
    <3>3. QED
      BY <2>1, <2>3, <3>1, <3>2 DEF Meeting!BriefIsFinal, MeetingsInv, CompletedHasBrief
  <2>4. QED
    BY <2>2, <2>3
<1>4. QED
  BY <1>1, <1>2, <1>3, OnlyTwoWrite

\* completeMeetingBriefAction and createMeeting: neither takes back a completed
\* brief, and a meeting that exists goes on existing.
THEOREM BriefIsFinalHolds ==
    ASSUME Meeting!MeetingsAssumption
    PROVE  Meeting!Spec => [][Meeting!BriefIsFinal]_(Meeting!vars)
BY StepKeepsBrief, MeetingInvariance, PTL DEF Meeting!Spec


-----------------------------------------------------------------------------
(* The launch form *)

Row == [project : Nat, status : {"AWAITING_UPLOAD"} \union Launch!Usable \union Launch!Failed,
        uploaded : BOOLEAN, file : Files]
Ids == Nat \union {None}
RunRow == [key : Nat, project : Nat, prompt : Prompts, id : Ids, file : Files \union {None},
           busy : BOOLEAN, left : BOOLEAN, submission : Nat]
Form == [project : Nat, prompt : Prompts, file : Files \union {None}, busy : BOOLEAN, submission : Nat]
Started == [step : {"intent", "upload", "complete", "wait", "create"}, project : Nat, prompt : Prompts,
            file : Files \union {None}, busy : BOOLEAN, submission : Nat, id : Ids, key : Nat]
Keyed == [fingerprint : Prompts \X Ids, key : Nat]

FewRows == \A n \in Nat : Cardinality(Launch!OfProject(n)) <= MaxAttachments
LaunchTypes ==
    /\ attachment \in Seq(Row) /\ FewRows
    /\ runs \in Seq(RunRow) /\ Len(runs) <= MaxRuns
    /\ launchForm \in Form /\ launch \in Started \union {Launch!Idle}
    /\ intent \in [Files -> Ids]
    /\ request \in Keyed \union {None}
    /\ {pointer, shownRun, restoring} \subseteq DOMAIN runs \union {None}

\* The n-th run was created with the n-th key, and a pending key is one of
\* theirs or the next.
KeysCount ==
    /\ \A i \in DOMAIN runs : runs[i].key = i
    /\ request # None => request.key \in 1 .. Len(runs) + 1

HoldsFile(a, f) == a \in Launch!Attachments /\ attachment[a].file = f
StandsFor(a, f, busy) == a \in Launch!Attachments /\ (attachment[a].file = f \/ busy)
IsClean(a, n) == a \in Launch!Attachments /\ attachment[a].project = n /\ attachment[a].status = "CLEAN"

\* The page knows of a row only for the file that the form holds, unless that was
\* chosen during a launch of another.
PageKnowsItsFile ==
    /\ \A f \in Files : intent[f] # None => HoldsFile(intent[f], f)
    /\ \A a \in DOMAIN records : a \in Launch!Attachments
    /\ launchForm.file # None => \A a \in DOMAIN records : StandsFor(a, launchForm.file, launchForm.busy)

\* A launch works on what the form held when it began: on what it holds now, if the
\* form has not moved on.
LaunchFollowsForm ==
    /\ launchForm.project <= launchForm.submission
    /\ launch # Launch!Idle =>
          /\ launch.project <= launch.submission /\ launch.submission <= launchForm.submission
          /\ launch.submission = launchForm.submission =>
                launch.project = launchForm.project /\ launch.prompt = launchForm.prompt /\ launch.file = launchForm.file
          /\ launchForm.file # None /\ ~ launchForm.busy => launch.file = launchForm.file /\ ~ launch.busy

LaunchHasItsFile ==
    launch # Launch!Idle =>
        /\ launch.step # "create" => launch.file # None
        /\ launch.file = None => launch.id = None
        /\ launch.file # None /\ launch.step # "intent" => StandsFor(launch.id, launch.file, launch.busy)

\* The call goes out under the key that is remembered, unless it was forgotten since, and
\* with a file that was just seen scanned.
LaunchIsKeyed ==
    launch.step = "create" =>
        /\ launch.key \in 1 .. Len(runs) + 1
        /\ launch.project = launchForm.project => request # None
        /\ request # None => request.key = launch.key /\ request.fingerprint = <<launch.prompt, launch.id>>
        /\ launch.file # None => IsClean(launch.id, launch.project)
        /\ launch.file # None /\ launch.submission = launchForm.submission =>
              records = [b \in {launch.id} |-> "CLEAN"]

FilesOfRuns ==
    \A i \in DOMAIN runs :
        /\ runs[i].file = None => runs[i].id = None
        /\ runs[i].file # None =>
              /\ StandsFor(runs[i].id, runs[i].file, runs[i].busy)
              /\ IsClean(runs[i].id, runs[i].project)

\* A run of the present submission, the launch's or else the form's, is one whose answer
\* was lost: its key and what it was asked with are kept, and another attempt asks the
\* same, unless the user has left the project since.
Present == IF launch = Launch!Idle THEN launchForm.submission ELSE launch.submission
KeptFor(i, prompt) ==
    request # None /\ request.key = i /\ request.fingerprint = <<prompt, runs[i].id>>
FormRemembers(i) ==
    /\ KeptFor(i, launchForm.prompt)
    /\ launchForm.file = runs[i].file /\ launchForm.project = runs[i].project
    /\ launchForm.file # None => records = [b \in {runs[i].id} |-> "CLEAN"]
LaunchRemembers(i) ==
    /\ launch.step \in {"wait", "create"} /\ launch.id = runs[i].id
    /\ launch.file = runs[i].file /\ launch.project = runs[i].project
    /\ launch.project = launchForm.project => KeptFor(i, launch.prompt)
LostRunIsRemembered ==
    \A i \in DOMAIN runs :
        /\ runs[i].submission <= Present
        /\ runs[i].submission = Present =>
              /\ ~ runs[i].left
              /\ launch = Launch!Idle => FormRemembers(i)
              /\ launch # Launch!Idle => LaunchRemembers(i)

LaunchInv ==
    /\ LaunchTypes /\ KeysCount /\ PageKnowsItsFile /\ LaunchFollowsForm /\ LaunchHasItsFile
    /\ LaunchIsKeyed /\ FilesOfRuns /\ LostRunIsRemembered /\ Launch!OneRunPerSubmission

-----------------------------------------------------------------------------
(* Keys *)

LEMMA WithKeyFinds ==
    ASSUME runs \in Seq(RunRow), \A i \in DOMAIN runs : runs[i].key = i, NEW k \in 1 .. Len(runs) + 1
    PROVE  Launch!WithKey(k) = IF k <= Len(runs) THEN k ELSE 0
<1> DEFINE I == {i \in 1 .. Len(runs) : runs[i].key = k}
<1>1. Launch!WithKey(k) = IF I # {} THEN Launch!Min(I) ELSE 0
  BY DEF Launch!WithKey, Launch!SelectInSeq
<1>2. CASE k <= Len(runs)
  <2>1. I = {k}
    BY <1>2
  <2>2. Launch!Min({k}) = k
    BY DEF Launch!Min
  <2>3. QED
    BY <1>1, <1>2, <2>1, <2>2
<1>3. CASE k > Len(runs)
  <2>1. I = {}
    BY <1>3
  <2>2. QED
    BY <1>1, <1>3, <2>1
<1>4. QED
  BY <1>2, <1>3

LEMMA KeyedIsNotNone == ASSUME Launch!WorkspaceLaunchAssumption PROVE \A k \in Keyed : k # None
BY DEF Keyed, Ids, Launch!WorkspaceLaunchAssumption

LEMMA IdleIsNoLaunch == Launch!Idle \notin Started /\ Launch!Idle.step = "idle"
BY DEF Launch!Idle, Started

\* What the invariant says of the numbers it compares.
LEMMA LaunchNumbers ==
    ASSUME LaunchTypes
    PROVE  /\ launchForm.submission \in Nat /\ launchForm.project \in Nat /\ Present \in Nat
           /\ Len(runs) \in Nat
           /\ launch # Launch!Idle => launch \in Started /\ launch.submission \in Nat /\ launch.project \in Nat
           /\ \A i \in DOMAIN runs : runs[i] \in RunRow /\ runs[i].submission \in Nat
<1>1. \A i \in DOMAIN runs : runs[i] \in RunRow
  BY DEF LaunchTypes
<1>2. \A i \in DOMAIN runs : runs[i].submission \in Nat
  BY <1>1 DEF RunRow
<1>3. launchForm.submission \in Nat /\ launchForm.project \in Nat
  BY DEF LaunchTypes, Form
<1>4. launch # Launch!Idle => launch \in Started /\ launch.submission \in Nat /\ launch.project \in Nat
  BY DEF LaunchTypes, Started
<1>5. QED
  BY <1>1, <1>2, <1>3, <1>4 DEF Present, LaunchTypes

LEMMA LaunchInit == ASSUME Launch!WorkspaceLaunchAssumption PROVE Launch!Init => LaunchInv
<1> SUFFICES ASSUME Launch!Init PROVE LaunchInv
  OBVIOUS
<1>1. /\ Launch!FreshForm(0) \in Form /\ Launch!FreshForm(0).project = 0
      /\ Launch!FreshForm(0).submission = 0
  BY DEF Launch!FreshForm, Form, Launch!WorkspaceLaunchAssumption
<1>2. FewRows
  <2>1. \A n \in Nat : Launch!OfProject(n) = {}
    BY DEF Launch!Init, Launch!OfProject, Launch!Attachments
  <2>2. QED
    BY <2>1, FS_EmptySet DEF FewRows, Launch!WorkspaceLaunchAssumption
<1>3. LaunchTypes
  BY <1>1, <1>2 DEF Launch!Init, LaunchTypes, Ids, Launch!NoIntents, Launch!WorkspaceLaunchAssumption
<1>4. /\ KeysCount /\ LaunchHasItsFile /\ LostRunIsRemembered /\ FilesOfRuns
      /\ Launch!OneRunPerSubmission
  BY DEF Launch!Init, KeysCount, LaunchHasItsFile, LostRunIsRemembered, FilesOfRuns,
     Launch!OneRunPerSubmission, Launch!Runs
<1>5. LaunchFollowsForm /\ LaunchIsKeyed
  BY <1>1, IdleIsNoLaunch DEF Launch!Init, LaunchFollowsForm, LaunchIsKeyed
<1>6. PageKnowsItsFile
  BY DEF Launch!Init, PageKnowsItsFile, Launch!NoRecords, Launch!NoIntents
<1>7. QED
  BY <1>3, <1>4, <1>5, <1>6 DEF LaunchInv

-----------------------------------------------------------------------------
(* Rows *)

\* No row goes away or changes its file or project, and a clean one stays clean.
RowsStay ==
    /\ attachment' \in Seq(Row) /\ FewRows'
    /\ \A a \in Launch!Attachments :
          /\ a \in DOMAIN attachment' /\ attachment'[a].file = attachment[a].file
          /\ attachment'[a].project = attachment[a].project
          /\ attachment[a].status = "CLEAN" => attachment'[a].status = "CLEAN"

LEMMA NoRowChanges ==
    ASSUME LaunchInv, UNCHANGED attachment
    PROVE  RowsStay
BY DEF RowsStay, LaunchInv, LaunchTypes, FewRows, Launch!OfProject, Launch!Attachments

LEMMA RowChanges ==
    ASSUME LaunchInv, NEW a \in Launch!Attachments, NEW r \in Row,
           r.file = attachment[a].file, r.project = attachment[a].project,
           attachment[a].status = "CLEAN" => r.status = "CLEAN",
           attachment' = [attachment EXCEPT ![a] = r]
    PROVE  RowsStay
<1>1. attachment \in Seq(Row) /\ FewRows
  BY DEF LaunchInv, LaunchTypes
<1>2. attachment' \in Seq(Row) /\ DOMAIN attachment' = DOMAIN attachment
  BY <1>1 DEF Launch!Attachments
<1>3. \A b \in Launch!Attachments : b \in DOMAIN attachment' /\ attachment'[b] = IF b = a THEN r ELSE attachment[b]
  BY <1>1 DEF Launch!Attachments
<1>4. FewRows'
  <2>1. ASSUME NEW n \in Nat PROVE Launch!OfProject(n)' = Launch!OfProject(n)
    BY <1>2, <1>3 DEF Launch!OfProject, Launch!Attachments
  <2>2. QED
    BY <1>1, <2>1 DEF FewRows
<1>5. QED
  BY <1>2, <1>3, <1>4 DEF RowsStay

LEMMA RowIsAdded ==
    ASSUME Launch!WorkspaceLaunchAssumption, LaunchInv, NEW r \in Row, r.project = launch.project,
           ~ Launch!LimitReached, attachment' = Append(attachment, r)
    PROVE  /\ RowsStay
           /\ Len(attachment) + 1 \in DOMAIN attachment' /\ attachment'[Len(attachment) + 1] = r
<1> DEFINE a == Len(attachment) + 1
<1>1. /\ attachment \in Seq(Row) /\ Len(attachment) \in Nat /\ DOMAIN attachment = 1 .. Len(attachment)
      /\ FewRows /\ MaxAttachments \in Nat
  BY DEF LaunchInv, LaunchTypes, Launch!WorkspaceLaunchAssumption
<1>2. /\ attachment' \in Seq(Row) /\ DOMAIN attachment' = DOMAIN attachment \union {a}
      /\ attachment'[a] = r /\ a \notin DOMAIN attachment
  BY <1>1
<1>3. \A b \in Launch!Attachments : b \in DOMAIN attachment' /\ attachment'[b] = attachment[b]
  BY <1>1, <1>2 DEF Launch!Attachments
<1>4. FewRows'
  <2> SUFFICES ASSUME NEW n \in Nat PROVE Cardinality(Launch!OfProject(n)') <= MaxAttachments
    BY DEF FewRows
  <2>1. Launch!OfProject(n)' = IF n = r.project THEN Launch!OfProject(n) \union {a} ELSE Launch!OfProject(n)
    BY <1>2, <1>3 DEF Launch!OfProject, Launch!Attachments
  <2>2. Cardinality(Launch!OfProject(n)) <= MaxAttachments
    BY <1>1 DEF FewRows
  <2>3. CASE n # r.project
    BY <2>1, <2>2, <2>3
  <2>4. CASE n = r.project
    <3>1. IsFiniteSet(Launch!OfProject(n)) /\ a \notin Launch!OfProject(n)
      <4>1. IsFiniteSet(1 .. Len(attachment)) /\ Launch!OfProject(n) \subseteq 1 .. Len(attachment)
        BY <1>1, FS_Interval DEF Launch!OfProject, Launch!Attachments
      <4>2. QED
        BY <1>2, <4>1, FS_Subset DEF Launch!OfProject, Launch!Attachments
    <3>2. Cardinality(Launch!OfProject(n) \union {a}) = Cardinality(Launch!OfProject(n)) + 1
      BY <3>1, FS_AddElement
    <3>3. Cardinality(Launch!OfProject(n)) \in Nat
      BY <3>1, FS_CardinalityType
    <3>4. ~ (Cardinality(Launch!OfProject(n)) >= MaxAttachments)
      <4>1. n = launch.project
        BY <2>4
      <4>2. \A x : Launch!Cardinality(x) = Cardinality(x)
        BY DEF Launch!Cardinality, Cardinality, Launch!IsFiniteSet, IsFiniteSet
      <4>3. QED
        BY <4>1, <4>2 DEF Launch!LimitReached
    <3>5. QED
      BY <1>1, <2>1, <2>4, <3>2, <3>3, <3>4
  <2>5. QED
    BY <2>3, <2>4
<1>5. QED
  BY <1>2, <1>3, <1>4 DEF RowsStay

\* What rests on rows still does.
LEMMA StayingRowsHold ==
    ASSUME RowsStay
    PROVE  /\ \A a, f : HoldsFile(a, f) => HoldsFile(a, f)'
           /\ \A a, f, busy : StandsFor(a, f, busy) => StandsFor(a, f, busy)'
           /\ \A a, n : IsClean(a, n) => IsClean(a, n)'
           /\ \A a \in Launch!Attachments : a \in Launch!Attachments'
BY DEF RowsStay, HoldsFile, StandsFor, IsClean, Launch!Attachments

LEMMA FilesStay ==
    ASSUME RowsStay, FilesOfRuns, UNCHANGED runs
    PROVE  FilesOfRuns'
<1>1. ASSUME NEW i \in DOMAIN runs, runs[i].file # None
      PROVE  StandsFor(runs[i].id, runs[i].file, runs[i].busy) /\ IsClean(runs[i].id, runs[i].project)
  BY <1>1 DEF FilesOfRuns
<1>2. QED
  BY <1>1 DEF FilesOfRuns, RowsStay, StandsFor, IsClean, Launch!Attachments

-----------------------------------------------------------------------------
(* The way to a run *)

\* A step that creates no run and leaves the form alone.
LEMMA OnTheWay ==
    ASSUME LaunchInv, RowsStay, UNCHANGED <<runs, launchForm, pointer>>,
           {shownRun', restoring'} \subseteq {shownRun, restoring, pointer, None},
           launch' \in Started \union {Launch!Idle}, intent' \in [Files -> Ids],
           request' \in Keyed \union {None}, request' # None => request'.key \in 1 .. Len(runs) + 1,
           PageKnowsItsFile', LaunchFollowsForm', LaunchHasItsFile', LaunchIsKeyed', LostRunIsRemembered'
    PROVE  LaunchInv'
<1>1. LaunchTypes'
  BY DEF LaunchInv, LaunchTypes, RowsStay
<1>2. KeysCount'
  BY DEF LaunchInv, KeysCount
<1>3. FilesOfRuns'
  BY FilesStay DEF LaunchInv
<1>4. Launch!OneRunPerSubmission'
  BY DEF LaunchInv, Launch!OneRunPerSubmission, Launch!Runs
<1>5. QED
  BY <1>1, <1>2, <1>3, <1>4 DEF LaunchInv

\* What the page knows, when its rows stay and it learns of none.
LEMMA PageStays ==
    ASSUME PageKnowsItsFile, RowsStay, UNCHANGED launchForm,
           \A f \in Files : intent'[f] # None => intent'[f] = intent[f],
           DOMAIN records' \subseteq DOMAIN records
    PROVE  PageKnowsItsFile'
<1>1. \A f \in Files : intent'[f] # None => HoldsFile(intent[f], f)
  BY DEF PageKnowsItsFile
<1>2. \A f \in Files : intent'[f] # None => intent'[f] \in Launch!Attachments' /\ attachment'[intent'[f]].file = f
  BY <1>1 DEF HoldsFile, RowsStay, Launch!Attachments
<1>3. ASSUME NEW a \in DOMAIN records'
      PROVE  a \in Launch!Attachments' /\ attachment'[a].file = attachment[a].file
  BY <1>3 DEF PageKnowsItsFile, RowsStay, Launch!Attachments
<1>4. ASSUME NEW a \in DOMAIN records', launchForm.file # None
      PROVE  attachment'[a].file = launchForm.file \/ launchForm.busy
  BY <1>3, <1>4 DEF PageKnowsItsFile, StandsFor
<1>5. QED
  BY <1>2, <1>3, <1>4 DEF PageKnowsItsFile, HoldsFile, StandsFor

\* A step that only rows or what is shown take part in.
LEMMA ServerSteps ==
    ASSUME LaunchInv, RowsStay,
           UNCHANGED <<runs, launchForm, launch, intent, records, request, pointer>>,
           {shownRun', restoring'} \subseteq {shownRun, restoring, pointer, None}
    PROVE  LaunchInv'
<1>1. PageKnowsItsFile'
  BY PageStays DEF LaunchInv
<1>2. LaunchFollowsForm'
  BY DEF LaunchInv, LaunchFollowsForm
<1>3. LaunchHasItsFile'
  BY DEF LaunchInv, LaunchHasItsFile, StandsFor, RowsStay, Launch!Attachments
<1>4. LaunchIsKeyed'
  BY DEF LaunchInv, LaunchIsKeyed, IsClean, RowsStay, Launch!Attachments
<1>5. LostRunIsRemembered'
  BY DEF LaunchInv, LostRunIsRemembered, Present, FormRemembers, LaunchRemembers, KeptFor
<1>6. QED
  BY <1>1, <1>2, <1>3, <1>4, <1>5, OnTheWay DEF LaunchInv, LaunchTypes, KeysCount

LEMMA ScanKeeps ==
    ASSUME LaunchInv, NEW a \in Launch!Attachments, Launch!Scan(a) \/ Launch!Expire(a)
    PROVE  LaunchInv'
<1>1. attachment[a] \in Row
  BY DEF LaunchInv, LaunchTypes, Launch!Attachments
<1>2. PICK s \in {"CLEAN", "REJECTED", "EXPIRED"} : attachment' = [attachment EXCEPT ![a].status = s]
  BY DEF Launch!Scan, Launch!Expire
<1> DEFINE r == [attachment[a] EXCEPT !.status = s]
<1>3. r \in Row /\ r.file = attachment[a].file /\ r.project = attachment[a].project
  BY <1>1 DEF Row, Launch!Usable, Launch!Failed
<1>4. attachment[a].status # "CLEAN" /\ UNCHANGED <<runs, Launch!page, pointer>>
  BY DEF Launch!Scan, Launch!Expire
<1>5. attachment' = [attachment EXCEPT ![a] = r]
  BY <1>2
<1> HIDE DEF r
<1>6. RowsStay
  BY <1>3, <1>4, <1>5, RowChanges
<1>7. QED
  BY <1>4, <1>6, ServerSteps DEF Launch!page

\* Restoring a run changes what is shown only.
LEMMA RestoreKeeps ==
    ASSUME LaunchInv,
           Launch!Restore \/ Launch!RestoreFails \/ Launch!RetryRestore \/ UNCHANGED Launch!vars
    PROVE  LaunchInv'
<1>1. /\ UNCHANGED <<attachment, runs, launchForm, launch, intent, records, request, pointer>>
      /\ {shownRun', restoring'} \subseteq {shownRun, restoring, pointer, None}
  BY DEF Launch!Restore, Launch!RestoreFails, Launch!RetryRestore, Launch!AfterFailedRestore,
     Launch!vars, Launch!page
<1>2. QED
  BY <1>1, NoRowChanges, ServerSteps

\* The start of a launch.
LEMMA SubmitKeeps ==
    ASSUME Launch!WorkspaceLaunchAssumption, LaunchInv, Launch!Submit
    PROVE  LaunchInv'
<1> DEFINE begun(step, id, key) ==
             [step |-> step, project |-> launchForm.project, prompt |-> launchForm.prompt,
              file |-> launchForm.file, busy |-> launchForm.busy, submission |-> launchForm.submission,
              id |-> id, key |-> key]
           keyed == Launch!KeyFor(<<launchForm.prompt, None>>)
<1>t. /\ launchForm \in Form /\ runs \in Seq(RunRow) /\ Len(runs) \in Nat /\ request \in Keyed \union {None}
      /\ request # None => request.key \in 1 .. Len(runs) + 1
      /\ intent \in [Files -> Ids]
  BY LaunchNumbers DEF LaunchInv, LaunchTypes, KeysCount
<1>k. /\ keyed \in Keyed /\ keyed.key \in 1 .. Len(runs) + 1
      /\ keyed.fingerprint = <<launchForm.prompt, None>> /\ keyed # None
  <2>1. <<launchForm.prompt, None>> \in Prompts \X Ids /\ Len(runs) + 1 \in Nat
    BY <1>t DEF Form, Ids
  <2>2. /\ keyed \in Keyed /\ keyed.key \in 1 .. Len(runs) + 1
        /\ keyed.fingerprint = <<launchForm.prompt, None>>
    BY <1>t, <2>1 DEF Launch!KeyFor, Keyed
  <2>3. QED
    BY <2>2, KeyedIsNotNone
<1>f. /\ launch = Launch!Idle
      /\ UNCHANGED <<attachment, runs, launchForm, intent, records, pointer, shownRun, restoring>>
  BY DEF Launch!Submit
<1>1. PICK step \in {"create", "wait", "intent"}, id \in Launch!Existing \union {None}, key \in 0 .. Len(runs) + 1 :
        /\ launch' = begun(step, id, key)
        /\ launchForm.file = None => step = "create" /\ id = None /\ key = keyed.key /\ request' = keyed
        /\ launchForm.file # None => step # "create" /\ request' = request
        /\ launchForm.file # None /\ Launch!Existing # {} => step = "wait" /\ id \in Launch!Existing
        /\ launchForm.file # None /\ Launch!Existing = {} => step = "intent" /\ id = None
  <2>1. CASE launchForm.file = None
    <3>1. launch' = [begun("create", None, 0) EXCEPT !.step = "create", !.key = keyed.key] /\ request' = keyed
      BY <2>1 DEF Launch!Submit, Launch!Send, Launch!Fingerprint
    <3>2. launch' = begun("create", None, keyed.key) /\ request' = keyed
      BY <3>1
    <3>3. keyed.key \in 0 .. Len(runs) + 1
      BY <1>k, <1>t
    <3> HIDE DEF begun, keyed
    <3>4. QED
      BY <2>1, <3>2, <3>3
  <2>2. CASE launchForm.file # None /\ Launch!Existing # {}
    BY <1>t, <2>2 DEF Launch!Submit
  <2>3. CASE launchForm.file # None /\ Launch!Existing = {}
    BY <1>t, <2>3 DEF Launch!Submit
  <2>4. QED
    BY <2>1, <2>2, <2>3
<1>2. \A a \in Launch!Existing :
        /\ a \in DOMAIN records /\ a \in Launch!Attachments /\ a \in Nat
        /\ launchForm.file # None => StandsFor(a, launchForm.file, launchForm.busy)
  BY DEF LaunchInv, PageKnowsItsFile, Launch!Existing, Launch!Attachments, LaunchTypes
<1>3. id \in Ids /\ key \in Nat
  BY <1>2, <1>t DEF Ids
<1>4. begun(step, id, key) \in Started
  BY <1>t, <1>3 DEF Started, Form
<1>5. /\ launch' \in Started /\ launch' # Launch!Idle /\ launch'.step = step /\ launch'.id = id /\ launch'.key = key
      /\ launch'.prompt = launchForm.prompt /\ launch'.project = launchForm.project
      /\ launch'.file = launchForm.file /\ launch'.busy = launchForm.busy
      /\ launch'.submission = launchForm.submission
  BY <1>1, <1>4, IdleIsNoLaunch
<1> HIDE DEF begun, keyed
<1>6. request' \in Keyed \union {None} /\ (request' # None => request'.key \in 1 .. Len(runs) + 1)
  BY <1>1, <1>k, <1>t
<1>7. RowsStay
  BY <1>f, NoRowChanges
<1>8. PageKnowsItsFile'
  BY <1>f, <1>7, PageStays DEF LaunchInv
<1>9. LaunchFollowsForm'
  BY <1>f, <1>5, LaunchNumbers DEF LaunchInv, LaunchFollowsForm
<1>10. LaunchHasItsFile'
  <2>1. launchForm.file # None /\ step # "intent" => StandsFor(id, launchForm.file, launchForm.busy)
    BY <1>1, <1>2
  <2>2. QED
    BY <1>1, <1>5, <1>f, <2>1 DEF LaunchHasItsFile, StandsFor, Launch!Attachments
<1>11. LaunchIsKeyed'
  <2>1. step = "create" => launchForm.file = None /\ id = None /\ key = keyed.key /\ request' = keyed
    BY <1>1
  <2>2. QED
    BY <1>5, <1>f, <1>k, <2>1 DEF LaunchIsKeyed
<1>12. LostRunIsRemembered'
  <2> SUFFICES ASSUME NEW i \in DOMAIN runs
               PROVE  /\ runs[i].submission <= launchForm.submission
                      /\ runs[i].submission = launchForm.submission =>
                           ~ runs[i].left /\ LaunchRemembers(i)'
    BY <1>5, <1>f DEF LostRunIsRemembered, Present
  <2>1. /\ runs[i].submission <= launchForm.submission
        /\ runs[i].submission = launchForm.submission => ~ runs[i].left /\ FormRemembers(i)
    BY <1>f DEF LaunchInv, LostRunIsRemembered, Present
  <2>2. ASSUME runs[i].submission = launchForm.submission
        PROVE  LaunchRemembers(i)'
    <3>1. FormRemembers(i)
      BY <2>1, <2>2
    <3>2. CASE launchForm.file = None
      <4>1. runs[i].id = None /\ id = None /\ step = "create"
        BY <1>1, <3>1, <3>2 DEF LaunchInv, FilesOfRuns, FormRemembers
      <4>2. request' = request
        <5>1. request # None /\ request.fingerprint = <<launchForm.prompt, None>>
          BY <3>1, <4>1 DEF FormRemembers, KeptFor
        <5>2. keyed = request
          BY <5>1 DEF keyed, Launch!KeyFor
        <5>3. QED
          BY <1>1, <3>2, <5>2
      <4>3. QED
        BY <1>5, <1>f, <3>1, <3>2, <4>1, <4>2 DEF FormRemembers, LaunchRemembers, KeptFor
    <3>3. CASE launchForm.file # None
      <4>1. Launch!Existing = {runs[i].id}
        BY <3>1, <3>3 DEF FormRemembers, Launch!Existing, Launch!Usable
      <4>2. step = "wait" /\ id = runs[i].id /\ request' = request
        BY <1>1, <3>3, <4>1
      <4>3. QED
        BY <1>5, <1>f, <3>1, <4>2 DEF FormRemembers, LaunchRemembers, KeptFor
    <3>4. QED
      BY <3>2, <3>3
  <2>3. QED
    BY <2>1, <2>2
<1>13. QED
  BY <1>5, <1>6, <1>7, <1>8, <1>9, <1>10, <1>11, <1>12, <1>f, <1>t, OnTheWay

\* A launch that goes on is the same launch.
SameLaunch(l) ==
    /\ l \in Started /\ l.project = launch.project /\ l.prompt = launch.prompt /\ l.file = launch.file
    /\ l.busy = launch.busy /\ l.submission = launch.submission
LaunchStands == StandsFor(launch.id, launch.file, launch.busy)

\* What a step leaves of the launch, when it ends it or goes on with it.
LEMMA StillFollows ==
    ASSUME LaunchInv, launch # Launch!Idle, UNCHANGED launchForm,
           launch' = Launch!Idle \/ SameLaunch(launch')
    PROVE  LaunchFollowsForm'
BY DEF LaunchInv, LaunchFollowsForm, SameLaunch

\* A launch that is on its way to an upload has no run yet.
LEMMA NoRunYet ==
    ASSUME LaunchInv, launch # Launch!Idle, launch.step \in {"intent", "upload", "complete"},
           UNCHANGED <<runs, launchForm>>, launch' = Launch!Idle \/ SameLaunch(launch')
    PROVE  LostRunIsRemembered'
<1>1. \A i \in DOMAIN runs : runs[i].submission < launch.submission /\ runs[i].submission \in Nat
  BY LaunchNumbers DEF LaunchInv, LostRunIsRemembered, Present, LaunchRemembers
<1>2. /\ launch.submission <= launchForm.submission /\ launch.submission \in Nat
      /\ launchForm.submission \in Nat
  BY LaunchNumbers DEF LaunchInv, LaunchFollowsForm
<1>3. Present' \in {launchForm.submission, launch.submission}
  BY DEF Present, SameLaunch
<1>4. QED
  BY <1>1, <1>2, <1>3 DEF LostRunIsRemembered

\* What a launch is at a step before the call.
LEMMA LaunchHasRow ==
    ASSUME LaunchInv, launch.step \in {"intent", "upload", "complete", "wait"}
    PROVE  /\ launch # Launch!Idle /\ launch \in Started /\ launch.file # None /\ launch.file \in Files
           /\ launch.step # "intent" =>
                StandsFor(launch.id, launch.file, launch.busy) /\ attachment[launch.id] \in Row
           /\ SameLaunch(launch)
           /\ attachment \in Seq(Row) /\ intent \in [Files -> Ids]
<1>1. launch # Launch!Idle /\ launch \in Started
  BY IdleIsNoLaunch DEF LaunchInv, LaunchTypes
<1>2. launch.file # None /\ launch.file \in Files
  BY <1>1 DEF LaunchInv, LaunchHasItsFile, Started
<1>3. launch.step # "intent" =>
        StandsFor(launch.id, launch.file, launch.busy) /\ attachment[launch.id] \in Row
  BY <1>1, <1>2 DEF LaunchInv, LaunchHasItsFile, StandsFor, Launch!Attachments, LaunchTypes
<1>4. QED
  BY <1>1, <1>2, <1>3 DEF LaunchInv, LaunchTypes, SameLaunch

\* A step before the call: to another such step, or to the end.
LEMMA BeforeTheCall ==
    ASSUME LaunchInv, launch.step \in {"intent", "upload", "complete"}, RowsStay,
           UNCHANGED <<runs, launchForm, request, pointer, shownRun, restoring>>,
           \/ launch' = Launch!Idle
           \/ /\ SameLaunch(launch') /\ launch'.step \in {"upload", "complete", "wait"}
              /\ LaunchStands',
           intent' \in [Files -> Ids], PageKnowsItsFile'
    PROVE  LaunchInv'
<1>1. launch # Launch!Idle /\ launch.file # None
  BY LaunchHasRow
<1>2. LaunchFollowsForm' /\ LostRunIsRemembered'
  BY <1>1, StillFollows, NoRunYet
<1>3. LaunchIsKeyed'
  BY IdleIsNoLaunch DEF LaunchIsKeyed
<1>4. LaunchHasItsFile'
  <2>1. CASE launch' = Launch!Idle
    BY <2>1 DEF LaunchHasItsFile
  <2>2. CASE launch' # Launch!Idle
    BY <1>1, <2>2 DEF LaunchHasItsFile, LaunchStands, SameLaunch
  <2>3. QED
    BY <2>1, <2>2
<1>5. /\ launch' \in Started \union {Launch!Idle} /\ request' \in Keyed \union {None}
      /\ request' # None => request'.key \in 1 .. Len(runs) + 1
  BY DEF LaunchInv, LaunchTypes, KeysCount, SameLaunch
<1>6. QED
  BY <1>2, <1>3, <1>4, <1>5, OnTheWay

LEMMA CreateIntentKeeps ==
    ASSUME Launch!WorkspaceLaunchAssumption, LaunchInv, Launch!CreateIntent
    PROVE  LaunchInv'
<1>t. /\ launch # Launch!Idle /\ launch \in Started /\ launch.step = "intent"
      /\ launch.file \in Files /\ launch.file # None
      /\ attachment \in Seq(Row) /\ intent \in [Files -> Ids]
  BY LaunchHasRow DEF Launch!CreateIntent
<1>u. UNCHANGED <<runs, launchForm, request, pointer, shownRun, restoring>>
  BY DEF Launch!CreateIntent
<1>k. PageKnowsItsFile
  BY DEF LaunchInv
<1>1. CASE intent[launch.file] # None
  <2> DEFINE l == [launch EXCEPT !.step = "upload", !.id = intent[launch.file]]
  <2>1. launch' = l
    BY <1>1 DEF Launch!CreateIntent
  <2>2. SameLaunch(l) /\ l.step = "upload" /\ l.id = intent[launch.file]
    BY <1>t DEF SameLaunch, Started
  <2>3. StandsFor(intent[launch.file], launch.file, launch.busy)
    BY <1>1, <1>t, <1>k DEF PageKnowsItsFile, HoldsFile, StandsFor
  <2>4. UNCHANGED <<attachment, intent, records>>
    BY <1>1 DEF Launch!CreateIntent
  <2> HIDE DEF l
  <2>5. RowsStay
    BY <2>4, NoRowChanges
  <2>6. PageKnowsItsFile'
    BY <1>k, <1>u, <2>4, <2>5, PageStays
  <2>7. LaunchStands'
    BY <1>t, <2>1, <2>2, <2>3, <2>4 DEF LaunchStands, StandsFor, Launch!Attachments, SameLaunch
  <2>8. QED
    BY <1>t, <1>u, <2>1, <2>2, <2>4, <2>5, <2>6, <2>7, BeforeTheCall
<1>2. CASE intent[launch.file] = None /\ Launch!LimitReached
  <2>1. launch' = Launch!Idle /\ UNCHANGED <<attachment, intent, records>>
    BY <1>2 DEF Launch!CreateIntent, Launch!Throws
  <2>2. RowsStay
    BY <2>1, NoRowChanges
  <2>3. PageKnowsItsFile'
    BY <1>k, <1>u, <2>1, <2>2, PageStays
  <2>4. QED
    BY <1>t, <1>u, <2>1, <2>2, <2>3, BeforeTheCall
<1>3. CASE intent[launch.file] = None /\ ~ Launch!LimitReached
  <2> DEFINE a == Len(attachment) + 1
             r == [project |-> launch.project, status |-> "AWAITING_UPLOAD", uploaded |-> FALSE,
                   file |-> launch.file]
             l == [launch EXCEPT !.step = "upload", !.id = a]
  <2>1. /\ r \in Row /\ r.file = launch.file /\ r.project = launch.project
        /\ attachment' = Append(attachment, r)
    BY <1>3, <1>t DEF Launch!CreateIntent, Row, Started
  <2>2. a \in Nat /\ a \in Ids
    BY <1>t DEF Ids
  <2>3. SameLaunch(l) /\ l.step = "upload" /\ l.id = a
    BY <1>t, <2>2 DEF SameLaunch, Started
  <2> HIDE DEF r
  <2>4. RowsStay /\ a \in DOMAIN attachment' /\ attachment'[a].file = launch.file
    BY <1>3, <2>1, RowIsAdded
  <2>5. \/ /\ intent' = [intent EXCEPT ![launch.file] = a]
           /\ records' = [b \in DOMAIN records \union {a} |-> IF b = a THEN "AWAITING_UPLOAD" ELSE records[b]]
           /\ launch' = l
        \/ launch' = Launch!Idle /\ UNCHANGED <<intent, records>>
    BY <1>3 DEF Launch!CreateIntent, Launch!Throws
  <2> HIDE DEF l, a
  <2>6. intent' \in [Files -> Ids] /\ \A f \in Files : intent'[f] = intent[f] \/ (f = launch.file /\ intent'[f] = a)
    BY <1>t, <2>2, <2>5
  <2>7. DOMAIN records' \subseteq DOMAIN records \union {a}
    BY <2>5
  <2>8. PageKnowsItsFile'
    <3>1. ASSUME NEW f \in Files, intent'[f] # None PROVE intent'[f] \in DOMAIN attachment' /\ attachment'[intent'[f]].file = f
      <4>1. CASE intent'[f] = intent[f]
        BY <1>k, <2>4, <3>1, <4>1 DEF PageKnowsItsFile, HoldsFile, RowsStay
      <4>2. CASE f = launch.file /\ intent'[f] = a
        BY <2>4, <4>2
      <4>3. QED
        BY <2>6, <4>1, <4>2
    <3>2. ASSUME NEW b \in DOMAIN records'
          PROVE  /\ b \in DOMAIN attachment'
                 /\ launchForm.file # None => attachment'[b].file = launchForm.file \/ launchForm.busy
      <4>1. CASE b = a
        BY <1>t, <2>4, <4>1 DEF LaunchInv, LaunchFollowsForm
      <4>2. CASE b # a
        BY <1>k, <2>4, <2>7, <4>2 DEF PageKnowsItsFile, StandsFor, RowsStay
      <4>3. QED
        BY <4>1, <4>2
    <3>3. QED
      BY <1>u, <3>1, <3>2 DEF PageKnowsItsFile, HoldsFile, StandsFor, Launch!Attachments
  <2>9. launch' = l => LaunchStands'
    BY <1>t, <2>3, <2>4 DEF LaunchStands, StandsFor, Launch!Attachments, SameLaunch
  <2>10. QED
    BY <1>t, <1>u, <2>3, <2>4, <2>5, <2>6, <2>8, <2>9, BeforeTheCall
<1>4. QED
  BY <1>1, <1>2, <1>3

\* A launch whose row stays goes on to a step, or throws.
LEMMA GoesOn ==
    ASSUME LaunchInv, launch.step \in {"upload", "complete"}, RowsStay,
           NEW step \in {"complete", "wait"}, Launch!GoOn(step) \/ Launch!Throws
    PROVE  \/ launch' = Launch!Idle
           \/ /\ SameLaunch(launch') /\ launch'.step \in {"upload", "complete", "wait"}
              /\ LaunchStands'
<1> DEFINE l == [launch EXCEPT !.step = step]
<1>1. launch \in Started /\ launch.file # None /\ StandsFor(launch.id, launch.file, launch.busy)
  BY LaunchHasRow
<1>2. SameLaunch(l) /\ l.step = step /\ l.id = launch.id
  BY <1>1 DEF SameLaunch, Started
<1>3. launch' = l \/ launch' = Launch!Idle
  BY DEF Launch!GoOn, Launch!Throws
<1> HIDE DEF l
<1>4. launch' = l => LaunchStands'
  BY <1>1, <1>2 DEF LaunchStands, StandsFor, RowsStay, Launch!Attachments, SameLaunch
<1>5. QED
  BY <1>2, <1>3, <1>4

LEMMA UploadKeeps ==
    ASSUME LaunchInv, Launch!Upload
    PROVE  LaunchInv'
<1>1. /\ attachment[launch.id] \in Row /\ launch.id \in Launch!Attachments
      /\ intent \in [Files -> Ids]
  BY LaunchHasRow DEF Launch!Upload, StandsFor
<1>2. /\ UNCHANGED <<runs, launchForm, intent, records, request, pointer, shownRun, restoring>>
      /\ launch.step = "upload"
  BY DEF Launch!Upload
<1>3. RowsStay
  <2>1. CASE attachment[launch.id].status = "EXPIRED"
    BY <2>1, NoRowChanges DEF Launch!Upload
  <2>2. CASE attachment[launch.id].status # "EXPIRED"
    <3> DEFINE r == [attachment[launch.id] EXCEPT !.uploaded = TRUE]
    <3>1. /\ r \in Row /\ r.file = attachment[launch.id].file /\ r.project = attachment[launch.id].project
          /\ r.status = attachment[launch.id].status
      BY <1>1 DEF Row
    <3>2. attachment' = [attachment EXCEPT ![launch.id] = r]
      BY <2>2 DEF Launch!Upload
    <3> HIDE DEF r
    <3>3. QED
      BY <1>1, <3>1, <3>2, RowChanges
  <2>3. QED
    BY <2>1, <2>2
<1>4. Launch!GoOn("complete") \/ Launch!Throws
  BY DEF Launch!Upload
<1>5. PageKnowsItsFile'
  BY <1>2, <1>3, PageStays DEF LaunchInv
<1>6. QED
  BY <1>1, <1>2, <1>3, <1>4, <1>5, GoesOn, BeforeTheCall

LEMMA CompleteKeeps ==
    ASSUME LaunchInv, Launch!Complete
    PROVE  LaunchInv'
<1>1. /\ attachment[launch.id] \in Row /\ launch.id \in Launch!Attachments
      /\ launch.file \in Files /\ intent \in [Files -> Ids]
  BY LaunchHasRow DEF Launch!Complete, StandsFor
<1>2. UNCHANGED <<runs, launchForm, request, pointer, shownRun, restoring>> /\ launch.step = "complete"
  BY DEF Launch!Complete
<1>3. RowsStay
  <2>1. CASE UNCHANGED attachment
    BY <2>1, NoRowChanges
  <2>2. CASE attachment[launch.id].status = "AWAITING_UPLOAD" /\ ~ UNCHANGED attachment
    <3> DEFINE r == [attachment[launch.id] EXCEPT !.status = "QUARANTINED"]
    <3>1. r \in Row /\ r.file = attachment[launch.id].file /\ r.project = attachment[launch.id].project
      BY <1>1 DEF Row, Launch!Usable
    <3>2. attachment' = [attachment EXCEPT ![launch.id] = r]
      BY <2>2 DEF Launch!Complete
    <3> HIDE DEF r
    <3>3. QED
      BY <1>1, <2>2, <3>1, <3>2, RowChanges
  <2>3. QED
    BY <2>1, <2>2 DEF Launch!Complete
<1>4. Launch!GoOn("wait") \/ Launch!Throws
  BY DEF Launch!Complete
<1>5. intent' = intent \/ intent' = [intent EXCEPT ![launch.file] = None]
  BY DEF Launch!Complete
<1>6. intent' \in [Files -> Ids] /\ \A f \in Files : intent'[f] # None => intent'[f] = intent[f]
  BY <1>1, <1>5 DEF Ids
<1>7. DOMAIN records' = DOMAIN records
  BY DEF Launch!Complete
<1>8. PageKnowsItsFile'
  BY <1>2, <1>3, <1>6, <1>7, PageStays DEF LaunchInv
<1>9. QED
  BY <1>2, <1>3, <1>4, <1>6, <1>8, GoesOn, BeforeTheCall

LEMMA WaitForCleanKeeps ==
    ASSUME Launch!WorkspaceLaunchAssumption, LaunchInv, Launch!WaitForClean
    PROVE  LaunchInv'
<1> DEFINE here == {launch.id} \intersect Launch!OfProject(launch.project)
           status == [b \in here |-> attachment[b].status]
           keyed == Launch!KeyFor(<<launch.prompt, launch.id>>)
           l == [launch EXCEPT !.step = "create", !.key = keyed.key]
           clean == IsClean(launch.id, launch.project)
<1>1. /\ StandsFor(launch.id, launch.file, launch.busy) /\ launch.id \in Launch!Attachments
      /\ launch \in Started /\ launch # Launch!Idle /\ launch.file # None /\ launch.step = "wait"
      /\ intent \in [Files -> Ids]
  BY LaunchHasRow DEF Launch!WaitForClean, StandsFor
<1>2. UNCHANGED <<attachment, runs, launchForm, intent, pointer, shownRun, restoring>>
  BY DEF Launch!WaitForClean
<1>3. RowsStay
  BY <1>2, NoRowChanges
<1>4. records' = status
  BY DEF Launch!WaitForClean
<1>5. clean <=> \E b \in here : status[b] = "CLEAN"
  BY <1>1 DEF IsClean, Launch!OfProject
<1>6. \/ clean /\ request' = keyed /\ launch' = l
      \/ ~ clean /\ launch' = Launch!Idle /\ request' = request
      \/ ~ clean /\ UNCHANGED <<launch, request>>
  <2>1. (\E b \in here : status[b] \in {"CLEAN"}) <=> clean
    BY <1>5
  <2>2. clean => \E b \in here : status[b] \in Launch!Failed \union {"CLEAN"}
    BY <1>5
  <2>3. QED
    BY <2>1, <2>2 DEF Launch!WaitForClean, Launch!Send, Launch!Throws, Launch!Fingerprint
<1>t. /\ runs \in Seq(RunRow) /\ Len(runs) \in Nat /\ request \in Keyed \union {None}
      /\ request # None => request.key \in 1 .. Len(runs) + 1
  BY LaunchNumbers DEF LaunchInv, LaunchTypes, KeysCount
<1>k. /\ keyed \in Keyed /\ keyed.key \in 1 .. Len(runs) + 1
      /\ keyed.fingerprint = <<launch.prompt, launch.id>> /\ keyed # None
  <2>1. <<launch.prompt, launch.id>> \in Prompts \X Ids /\ Len(runs) + 1 \in Nat
    BY <1>1, <1>t DEF Started
  <2>2. /\ keyed \in Keyed /\ keyed.key \in 1 .. Len(runs) + 1
        /\ keyed.fingerprint = <<launch.prompt, launch.id>>
    BY <1>t, <2>1 DEF Launch!KeyFor, Keyed
  <2>3. QED
    BY <2>2, KeyedIsNotNone
<1>l. SameLaunch(l) /\ l.step = "create" /\ l.id = launch.id /\ l.key = keyed.key
  BY <1>1, <1>k DEF SameLaunch, Started, Keyed
<1>7. DOMAIN records' \subseteq {launch.id} /\ (clean => records' = [b \in {launch.id} |-> "CLEAN"])
  BY <1>1, <1>4 DEF IsClean, Launch!OfProject
<1>8. /\ request' \in Keyed \union {None} /\ (request' # None => request'.key \in 1 .. Len(runs) + 1)
      /\ launch' = Launch!Idle \/ SameLaunch(launch')
  BY <1>1, <1>6, <1>k, <1>l, <1>t DEF SameLaunch
<1> HIDE DEF l, keyed, status, here
<1>9. PageKnowsItsFile'
  <2>1. \A f \in Files : intent[f] # None => HoldsFile(intent[f], f)
    BY DEF LaunchInv, PageKnowsItsFile
  <2>2. launchForm.file # None => StandsFor(launch.id, launchForm.file, launchForm.busy)
    BY <1>1 DEF LaunchInv, LaunchFollowsForm, StandsFor
  <2>3. QED
    BY <1>1, <1>2, <1>7, <2>1, <2>2 DEF PageKnowsItsFile, HoldsFile, StandsFor, Launch!Attachments
<1>10. LaunchFollowsForm'
  BY <1>1, <1>2, <1>8, StillFollows
<1>11. LaunchHasItsFile'
  <2>1. CASE launch' = Launch!Idle
    BY <2>1 DEF LaunchHasItsFile
  <2>2. CASE launch' # Launch!Idle
    <3>1. launch'.id = launch.id /\ launch'.file = launch.file /\ launch'.busy = launch.busy
      BY <1>6, <1>8, <1>l, <2>2 DEF SameLaunch
    <3>2. QED
      BY <1>1, <1>2, <3>1 DEF LaunchHasItsFile, StandsFor, Launch!Attachments
  <2>3. QED
    BY <2>1, <2>2
<1>12. LaunchIsKeyed'
  <2>1. CASE launch' = l /\ clean /\ request' = keyed
    BY <1>2, <1>7, <1>k, <1>l, <2>1 DEF LaunchIsKeyed, SameLaunch, IsClean, Launch!Attachments
  <2>2. CASE launch'.step # "create"
    BY <2>2 DEF LaunchIsKeyed
  <2>3. QED
    BY <1>1, <1>6, <2>1, <2>2, IdleIsNoLaunch
<1>13. LostRunIsRemembered'
  <2>1. ASSUME NEW i \in DOMAIN runs
        PROVE  /\ runs[i].submission <= launch.submission
               /\ runs[i].submission = launch.submission => ~ runs[i].left /\ LaunchRemembers(i) /\ clean
    <3>1. /\ runs[i].submission <= launch.submission
          /\ runs[i].submission = launch.submission => ~ runs[i].left /\ LaunchRemembers(i)
      BY <1>1 DEF LaunchInv, LostRunIsRemembered, Present
    <3>2. LaunchRemembers(i) => clean
      BY <1>1 DEF LaunchInv, FilesOfRuns, LaunchRemembers
    <3>3. QED
      BY <3>1, <3>2
  <2>2. CASE launch' = Launch!Idle /\ ~ clean
    <3>1. /\ \A i \in DOMAIN runs : runs[i].submission < launch.submission /\ runs[i].submission \in Nat
          /\ launch.submission <= launchForm.submission /\ launch.submission \in Nat
          /\ launchForm.submission \in Nat
      BY <1>1, <2>1, <2>2, LaunchNumbers DEF LaunchInv, LaunchFollowsForm
    <3>2. Present' = launchForm.submission
      BY <1>2, <2>2 DEF Present
    <3>3. QED
      BY <1>2, <3>1, <3>2 DEF LostRunIsRemembered
  <2>3. CASE launch' # Launch!Idle
    <3>1. Present' = launch.submission
      BY <1>8, <2>3 DEF Present, SameLaunch
    <3>2. ASSUME NEW i \in DOMAIN runs, runs[i].submission = launch.submission
          PROVE  LaunchRemembers(i)'
      <4>1. LaunchRemembers(i) /\ clean
        BY <2>1, <3>2
      <4>2. launch' = l /\ request' = keyed
        BY <1>6, <2>3, <4>1
      <4>3. launch.project = launchForm.project => keyed = request
        BY <4>1 DEF LaunchRemembers, KeptFor, keyed, Launch!KeyFor
      <4>4. QED
        BY <1>2, <1>l, <4>1, <4>2, <4>3 DEF LaunchRemembers, KeptFor, SameLaunch
    <3>3. QED
      BY <1>2, <2>1, <2>3, <3>1, <3>2 DEF LostRunIsRemembered
  <2>4. QED
    BY <1>1, <1>6, <1>l, <2>2, <2>3, IdleIsNoLaunch DEF SameLaunch
<1>14. launch' \in Started \union {Launch!Idle}
  BY <1>8 DEF SameLaunch
<1>15. QED
  BY <1>1, <1>2, <1>3, <1>8, <1>9, <1>10, <1>11, <1>12, <1>13, <1>14, OnTheWay

-----------------------------------------------------------------------------
(* The form, and the end of the way *)

\* A form that moves on to its next submission.
MovedForm(new) == new \in Form /\ new.submission = launchForm.submission + 1 /\ new.project <= new.submission

\* When the launch is over and the form has moved on, all runs are left behind.
LEMMA FormMovesOn ==
    ASSUME LaunchInv, UNCHANGED attachment,
           runs' \in Seq(RunRow), Len(runs') <= MaxRuns,
           \A i \in DOMAIN runs' : runs'[i].key = i /\ runs'[i].submission <= launchForm.submission,
           FilesOfRuns', Launch!OneRunPerSubmission',
           MovedForm(launchForm'), launch' = Launch!Idle, intent' \in [Files -> Ids], PageKnowsItsFile',
           request' = None \/ UNCHANGED <<request, runs>>,
           {pointer', shownRun', restoring'} \subseteq DOMAIN runs' \union {None}
    PROVE  LaunchInv'
<1>1. LaunchTypes'
  BY NoRowChanges DEF LaunchInv, LaunchTypes, RowsStay, MovedForm
<1>2. KeysCount'
  BY DEF LaunchInv, KeysCount
<1>3. LaunchFollowsForm' /\ LaunchHasItsFile' /\ LaunchIsKeyed'
  BY IdleIsNoLaunch DEF LaunchFollowsForm, LaunchHasItsFile, LaunchIsKeyed, MovedForm
<1>4. launchForm.submission \in Nat
  BY LaunchNumbers DEF LaunchInv
<1>5. \A i \in DOMAIN runs' : runs'[i].submission \in Nat
  <2>1. \A i \in DOMAIN runs' : runs'[i] \in RunRow
    OBVIOUS
  <2>2. QED
    BY <2>1 DEF RunRow
<1>6. Present' = launchForm.submission + 1
  BY DEF Present, MovedForm
<1>7. LostRunIsRemembered'
  BY <1>4, <1>5, <1>6 DEF LostRunIsRemembered
<1>8. QED
  BY <1>1, <1>2, <1>3, <1>7 DEF LaunchInv

\* The same, for a form that changes without a run.
LEMMA FormChanges ==
    ASSUME LaunchInv, UNCHANGED <<attachment, runs>>,
           MovedForm(launchForm'), launch' = Launch!Idle, intent' \in [Files -> Ids], PageKnowsItsFile',
           request' \in {request, None},
           {pointer', shownRun', restoring'} \subseteq {pointer, shownRun, restoring, None}
    PROVE  LaunchInv'
<1>1. /\ runs \in Seq(RunRow) /\ Len(runs) <= MaxRuns
      /\ {pointer', shownRun', restoring'} \subseteq DOMAIN runs \union {None}
  BY DEF LaunchInv, LaunchTypes
<1>2. \A i \in DOMAIN runs : runs[i].key = i /\ runs[i].submission <= launchForm.submission
  <2>1. Present <= launchForm.submission /\ Present \in Nat /\ launchForm.submission \in Nat
    BY LaunchNumbers DEF LaunchInv, LaunchFollowsForm, Present
  <2>2. \A i \in DOMAIN runs : runs[i].submission <= Present /\ runs[i].submission \in Nat
    BY LaunchNumbers DEF LaunchInv, LostRunIsRemembered
  <2>3. QED
    BY <2>1, <2>2 DEF LaunchInv, KeysCount
<1>3. FilesOfRuns' /\ Launch!OneRunPerSubmission'
  BY NoRowChanges, FilesStay DEF LaunchInv, Launch!OneRunPerSubmission, Launch!Runs
<1>4. QED
  BY <1>1, <1>2, <1>3, FormMovesOn

\* The form changes under a launch that goes on: it follows the form no longer, and what it is
\* remembered by stays, unless it is of a project that the user has left.
LEMMA FormChangesUnderLaunch ==
    ASSUME LaunchInv, launch # Launch!Idle, UNCHANGED <<attachment, runs, launch>>,
           MovedForm(launchForm'), intent' \in [Files -> Ids], PageKnowsItsFile',
           launchForm'.file # None /\ ~ launchForm'.busy => launchForm'.file = launchForm.file /\ ~ launchForm.busy,
           \/ request' = request /\ launchForm'.project = launchForm.project
           \/ request' = None /\ launchForm'.project = launchForm.submission + 1,
           {pointer', shownRun', restoring'} \subseteq {pointer, shownRun, restoring, None}
    PROVE  LaunchInv'
<1>n. /\ launchForm.submission \in Nat /\ launch.submission \in Nat /\ launch.project \in Nat
      /\ launch.project <= launch.submission /\ launch.submission <= launchForm.submission
  BY LaunchNumbers DEF LaunchInv, LaunchFollowsForm
<1>1. LaunchTypes'
  BY NoRowChanges DEF LaunchInv, LaunchTypes, RowsStay, MovedForm
<1>2. KeysCount'
  BY DEF LaunchInv, KeysCount
<1>3. LaunchFollowsForm'
  BY <1>n DEF LaunchInv, LaunchFollowsForm, MovedForm
<1>4. LaunchHasItsFile'
  BY DEF LaunchInv, LaunchHasItsFile, StandsFor, Launch!Attachments
<1>5. LaunchIsKeyed'
  BY <1>n DEF LaunchInv, LaunchIsKeyed, IsClean, Launch!Attachments, MovedForm
<1>6. FilesOfRuns' /\ Launch!OneRunPerSubmission'
  BY NoRowChanges, FilesStay DEF LaunchInv, Launch!OneRunPerSubmission, Launch!Runs
<1>7. LostRunIsRemembered'
  <2>1. Present' = Present
    BY DEF Present
  <2>2. ASSUME NEW i \in DOMAIN runs, runs[i].submission = Present
        PROVE  ~ runs[i].left /\ LaunchRemembers(i)'
    <3>1. ~ runs[i].left /\ LaunchRemembers(i)
      BY <2>2 DEF LaunchInv, LostRunIsRemembered
    <3>2. CASE request' = request /\ launchForm'.project = launchForm.project
      BY <3>1, <3>2 DEF LaunchRemembers, KeptFor
    <3>3. CASE launchForm'.project = launchForm.submission + 1
      BY <1>n, <3>1, <3>3 DEF LaunchRemembers
    <3>4. QED
      BY <3>1, <3>2, <3>3
  <2>3. QED
    BY <2>1, <2>2 DEF LaunchInv, LostRunIsRemembered
<1>8. QED
  BY <1>1, <1>2, <1>3, <1>4, <1>5, <1>6, <1>7 DEF LaunchInv

LEMMA FormStepsKeep ==
    ASSUME Launch!WorkspaceLaunchAssumption, LaunchInv,
           \/ \E p \in Prompts : Launch!EditPrompt(p)
           \/ \E f \in Files \union {None} : Launch!SelectAttachments(f)
           \/ Launch!Reload \/ Launch!StartNewProject
    PROVE  LaunchInv'
<1>1. /\ launchForm \in Form /\ intent \in [Files -> Ids] /\ launchForm.submission \in Nat
      /\ launchForm.submission + 1 \in Nat /\ launchForm.project \in Nat
      /\ launchForm.project <= launchForm.submission
      /\ PageKnowsItsFile
  BY LaunchNumbers DEF LaunchInv, LaunchTypes, LaunchFollowsForm
<1>2. Launch!NoIntents \in [Files -> Ids] /\ DOMAIN Launch!NoRecords = {} /\ \A f \in Files : Launch!NoIntents[f] = None
  BY DEF Ids, Launch!NoRecords, Launch!NoIntents
<1>3. ASSUME NEW p \in Prompts, Launch!EditPrompt(p)
      PROVE  LaunchInv'
  <2> DEFINE new == [launchForm EXCEPT !.prompt = p, !.submission = @ + 1]
  <2>a. /\ new \in Form /\ new.submission = launchForm.submission + 1 /\ new.project = launchForm.project
        /\ new.file = launchForm.file /\ new.busy = launchForm.busy
    BY <1>1 DEF Form
  <2>1. MovedForm(new) /\ new.file = launchForm.file /\ new.busy = launchForm.busy /\ new.project = launchForm.project
    BY <1>1, <2>a DEF MovedForm
  <2>2. launchForm' = new
        /\ UNCHANGED <<attachment, runs, launch, intent, records, request, pointer, shownRun, restoring>>
    BY <1>3 DEF Launch!EditPrompt
  <2> HIDE DEF new
  <2>3. PageKnowsItsFile'
    BY <1>1, <2>1, <2>2 DEF PageKnowsItsFile, HoldsFile, StandsFor, Launch!Attachments
  <2>4. CASE launch = Launch!Idle
    BY <1>1, <2>1, <2>2, <2>3, <2>4, FormChanges
  <2>5. CASE launch # Launch!Idle
    BY <1>1, <2>1, <2>2, <2>3, <2>5, FormChangesUnderLaunch
  <2>6. QED
    BY <2>4, <2>5
<1>4. ASSUME NEW f \in Files \union {None}, Launch!SelectAttachments(f)
      PROVE  LaunchInv'
  <2> DEFINE new == [launchForm EXCEPT !.file = f, !.busy = launch # Launch!Idle, !.submission = @ + 1]
  <2>a. /\ new \in Form /\ new.submission = launchForm.submission + 1 /\ new.project = launchForm.project
        /\ new.busy = (launch # Launch!Idle)
    BY <1>1 DEF Form
  <2>1. MovedForm(new) /\ new.busy = (launch # Launch!Idle) /\ new.project = launchForm.project
    BY <1>1, <2>a DEF MovedForm
  <2>2. /\ launchForm' = new /\ intent' = Launch!NoIntents /\ records' = Launch!NoRecords
        /\ UNCHANGED <<attachment, runs, launch, request, pointer, shownRun, restoring>>
    BY <1>4 DEF Launch!SelectAttachments
  <2> HIDE DEF new
  <2>3. PageKnowsItsFile'
    BY <1>2, <2>2 DEF PageKnowsItsFile
  <2>4. CASE launch = Launch!Idle
    BY <1>2, <2>1, <2>2, <2>3, <2>4, FormChanges
  <2>5. CASE launch # Launch!Idle
    BY <1>2, <2>1, <2>2, <2>3, <2>5, FormChangesUnderLaunch
  <2>6. QED
    BY <2>4, <2>5
<1>5. CASE Launch!Reload
  <2>1. MovedForm(Launch!FreshForm(launchForm.submission + 1))
    BY <1>1 DEF Launch!FreshForm, Form, MovedForm, Launch!WorkspaceLaunchAssumption
  <2>2. /\ launchForm' = Launch!FreshForm(launchForm.submission + 1) /\ launch' = Launch!Idle
        /\ intent' = Launch!NoIntents /\ records' = Launch!NoRecords /\ request' = None
        /\ shownRun' = None /\ restoring' = pointer
        /\ UNCHANGED <<attachment, runs, pointer>>
    BY <1>5 DEF Launch!Reload
  <2>3. PageKnowsItsFile'
    BY <1>2, <2>2 DEF PageKnowsItsFile
  <2>4. QED
    BY <1>2, <2>1, <2>2, <2>3, FormChanges
<1>6. CASE Launch!StartNewProject
  <2> DEFINE new == [launchForm EXCEPT !.project = launchForm.submission + 1, !.file = None, !.submission = @ + 1]
  <2>a. /\ new \in Form /\ new.submission = launchForm.submission + 1
        /\ new.project = launchForm.submission + 1 /\ new.file = None
    BY <1>1 DEF Form
  <2>1. MovedForm(new) /\ new.file = None /\ new.project = launchForm.submission + 1
    BY <1>1, <2>a DEF MovedForm
  <2>2. /\ launchForm' = new /\ records' = Launch!NoRecords
        /\ request' = None /\ shownRun' = None /\ pointer' = None
        /\ UNCHANGED <<attachment, runs, launch, intent, restoring>>
    BY <1>6 DEF Launch!StartNewProject
  <2> HIDE DEF new
  <2>3. PageKnowsItsFile'
    BY <1>1, <1>2, <2>2 DEF PageKnowsItsFile, HoldsFile, Launch!Attachments
  <2>4. CASE launch = Launch!Idle
    BY <1>1, <2>1, <2>2, <2>3, <2>4, FormChanges
  <2>5. CASE launch # Launch!Idle
    BY <1>1, <2>1, <2>2, <2>3, <2>5, FormChangesUnderLaunch
  <2>6. QED
    BY <2>4, <2>5
<1>7. QED
  BY <1>3, <1>4, <1>5, <1>6

LEMMA CreateRunKeeps ==
    ASSUME Launch!WorkspaceLaunchAssumption, LaunchInv, Launch!CreateRun
    PROVE  LaunchInv'
<1> DEFINE known == Launch!WithKey(launch.key)
           left == launch # Launch!Idle /\ launch.project # launchForm.project
           row == [key |-> launch.key, project |-> launch.project, prompt |-> launch.prompt,
                   id |-> launch.id, file |-> launch.file, busy |-> launch.busy, left |-> left,
                   submission |-> launch.submission]
           moved == [launchForm EXCEPT !.submission = @ + 1]
<1>t. /\ runs \in Seq(RunRow) /\ Len(runs) \in Nat /\ Len(runs) <= MaxRuns
      /\ intent \in [Files -> Ids] /\ launchForm \in Form /\ launchForm.submission \in Nat
      /\ launchForm.project \in Nat /\ launchForm.project <= launchForm.submission
      /\ {pointer, shownRun, restoring} \subseteq DOMAIN runs \union {None}
      /\ request \in Keyed \union {None} /\ MaxRuns \in Nat
      /\ \A i \in DOMAIN runs : runs[i].submission \in Nat
  BY LaunchNumbers DEF LaunchInv, LaunchTypes, LaunchFollowsForm, Launch!WorkspaceLaunchAssumption
<1>k. \A i \in DOMAIN runs : runs[i].key = i
  BY DEF LaunchInv, KeysCount
<1>u. UNCHANGED <<attachment, intent, records, restoring>> /\ launch' = Launch!Idle
  BY DEF Launch!CreateRun, Launch!Throws
<1>l. /\ launch # Launch!Idle /\ launch \in Started /\ launch.step = "create"
      /\ launch.submission \in Nat /\ launch.submission <= launchForm.submission
      /\ launch.submission = launchForm.submission =>
            launch.project = launchForm.project /\ launch.prompt = launchForm.prompt /\ launch.file = launchForm.file
      /\ launch.file = None => launch.id = None
      /\ launch.file # None => StandsFor(launch.id, launch.file, launch.busy) /\ IsClean(launch.id, launch.project)
      /\ launch.file # None /\ launch.submission = launchForm.submission => records = [b \in {launch.id} |-> "CLEAN"]
      /\ launch.key \in 1 .. Len(runs) + 1
      /\ launch.project = launchForm.project => request # None
      /\ request # None => request.key = launch.key /\ request.fingerprint = <<launch.prompt, launch.id>>
  <2>1. launch # Launch!Idle /\ launch.step = "create"
    BY IdleIsNoLaunch DEF Launch!CreateRun
  <2>2. QED
    BY <2>1, LaunchNumbers DEF LaunchInv, LaunchFollowsForm, LaunchHasItsFile, LaunchIsKeyed
<1>w. known = IF launch.key <= Len(runs) THEN launch.key ELSE 0
  BY <1>t, <1>k, <1>l, WithKeyFinds
<1>r. /\ row \in RunRow /\ row.key = launch.key /\ row.submission = launch.submission
      /\ row.file = launch.file /\ row.id = launch.id /\ row.busy = launch.busy
      /\ row.project = launch.project /\ row.left = left
  BY <1>l DEF RunRow, Started
\* What the call does.
<1>c. /\ known # 0 \/ Len(runs) < MaxRuns
      /\ \/ /\ runs' = IF known = 0 THEN Append(runs, row) ELSE runs
            /\ request' = None
            /\ shownRun' = IF known = 0 THEN Len(runs') ELSE known
            /\ pointer' = shownRun'
            /\ launchForm' = moved
         \/ /\ runs' \in {runs, IF known = 0 THEN Append(runs, row) ELSE runs}
            /\ UNCHANGED <<launchForm, request, shownRun, pointer>>
  BY DEF Launch!CreateRun, Launch!Left
\* The runs of this submission that are remembered were found by their key.
<1>s. \A i \in DOMAIN runs :
         /\ runs[i].submission <= launch.submission
         /\ runs[i].submission = launch.submission => ~ runs[i].left /\ LaunchRemembers(i)
  BY <1>l DEF LaunchInv, LostRunIsRemembered, Present
<1>n. ASSUME known = 0, NEW i \in DOMAIN runs, runs[i].submission = launch.submission
      PROVE  left /\ ~ runs[i].left
  <2>1. LaunchRemembers(i) /\ ~ runs[i].left
    BY <1>n, <1>s
  <2>2. CASE launch.project = launchForm.project
    <3>1. request # None /\ request.key = i
      BY <2>1, <2>2 DEF LaunchRemembers, KeptFor
    <3>2. launch.key = i
      BY <1>l, <3>1
    <3>3. QED
      BY <1>n, <1>t, <1>w, <3>2
  <2>3. QED
    BY <1>l, <2>1, <2>2
<1>p. PageKnowsItsFile /\ FilesOfRuns /\ Launch!OneRunPerSubmission
  BY DEF LaunchInv
<1>f. MovedForm(moved) /\ moved.file = launchForm.file /\ moved.busy = launchForm.busy
  BY <1>t DEF Form, MovedForm
<1> HIDE DEF known, row, left, moved
\* With the new run at its end, the table is as it should be.
<1>a. ASSUME known = 0, runs' = Append(runs, row)
      PROVE  /\ runs' \in Seq(RunRow) /\ Len(runs') = Len(runs) + 1 /\ Len(runs') <= MaxRuns
             /\ \A i \in DOMAIN runs' :
                   /\ runs'[i].key = i /\ runs'[i].submission <= launch.submission
                   /\ (i \in DOMAIN runs /\ runs'[i] = runs[i]) \/ (i = Len(runs) + 1 /\ runs'[i] = row)
             /\ FilesOfRuns' /\ Launch!OneRunPerSubmission' /\ launch.key = Len(runs) + 1
  <2>1. launch.key = Len(runs) + 1
    BY <1>a, <1>t, <1>w, <1>l
  <2>2. runs' \in Seq(RunRow) /\ Len(runs') = Len(runs) + 1 /\ Len(runs') <= MaxRuns
    BY <1>a, <1>t, <1>r, <1>c
  <2>3. \A i \in DOMAIN runs' :
           (i \in DOMAIN runs /\ runs'[i] = runs[i]) \/ (i = Len(runs) + 1 /\ runs'[i] = row)
    BY <1>a, <1>t
  <2>4. \A i \in DOMAIN runs' : runs'[i].key = i /\ runs'[i].submission <= launch.submission
    BY <1>k, <1>l, <1>r, <1>s, <2>1, <2>3
  <2>5. FilesOfRuns'
    <3>1. ASSUME NEW i \in DOMAIN runs'
          PROVE  /\ runs'[i].file = None => runs'[i].id = None
                 /\ runs'[i].file # None => StandsFor(runs'[i].id, runs'[i].file, runs'[i].busy)
                                            /\ IsClean(runs'[i].id, runs'[i].project)
      BY <1>l, <1>p, <1>r, <2>3, <3>1 DEF FilesOfRuns
    <3>2. QED
      BY <1>u, <3>1 DEF FilesOfRuns, StandsFor, IsClean, Launch!Attachments
  <2>6. Launch!OneRunPerSubmission'
    <3>1. ASSUME NEW i \in DOMAIN runs', NEW j \in DOMAIN runs',
                 runs'[i].submission = runs'[j].submission, runs'[i].left = runs'[j].left
          PROVE  i = j
      <4>1. CASE i \in DOMAIN runs /\ runs'[i] = runs[i] /\ j \in DOMAIN runs /\ runs'[j] = runs[j]
        BY <1>p, <3>1, <4>1 DEF Launch!OneRunPerSubmission, Launch!Runs
      <4>2. \A x \in DOMAIN runs : runs[x].submission = row.submission => runs[x].left # row.left
        BY <1>a, <1>n, <1>r
      <4>3. QED
        BY <2>3, <3>1, <4>1, <4>2
    <3>2. QED
      BY <3>1 DEF Launch!OneRunPerSubmission, Launch!Runs
  <2>7. QED
    BY <2>1, <2>2, <2>3, <2>4, <2>5, <2>6
\* The table, whatever the call did to it.
<1>b. /\ runs' \in Seq(RunRow) /\ Len(runs') <= MaxRuns /\ Len(runs) <= Len(runs')
      /\ \A i \in DOMAIN runs' : runs'[i].key = i /\ runs'[i].submission <= launch.submission
      /\ FilesOfRuns' /\ Launch!OneRunPerSubmission'
  <2>1. CASE runs' = runs
    BY <2>1, <1>k, <1>p, <1>s, <1>t, <1>u
       DEF FilesOfRuns, Launch!OneRunPerSubmission, Launch!Runs, StandsFor, IsClean, Launch!Attachments
  <2>2. CASE known = 0 /\ runs' = Append(runs, row)
    BY <2>2, <1>a, <1>t
  <2>3. QED
    BY <1>c, <2>1, <2>2
<1>x. \A i \in DOMAIN runs' : runs'[i].submission \in Nat /\ runs'[i].submission <= launchForm.submission
  <2>1. \A i \in DOMAIN runs' : runs'[i] \in RunRow
    BY <1>b
  <2>2. \A i \in DOMAIN runs' : runs'[i].submission \in Nat
    BY <2>1 DEF RunRow
  <2>3. QED
    BY <1>b, <1>l, <1>t, <2>2
<1>1. CASE /\ request' = None /\ launchForm' = moved /\ pointer' = shownRun'
           /\ shownRun' = IF known = 0 THEN Len(runs') ELSE known
           /\ known = 0 => runs' = Append(runs, row)
  <2>1. shownRun' \in DOMAIN runs'
    <3>1. CASE known = 0
      BY <1>1, <1>a, <1>t, <3>1
    <3>2. CASE known # 0
      BY <1>1, <1>b, <1>l, <1>t, <1>w, <3>2
    <3>3. QED
      BY <3>1, <3>2
  <2>2. PageKnowsItsFile'
    BY <1>1, <1>f, <1>p, <1>u DEF PageKnowsItsFile, HoldsFile, StandsFor, Launch!Attachments
  <2>3. restoring' \in DOMAIN runs' \union {None}
    BY <1>b, <1>t, <1>u
  <2>4. QED
    BY <1>1, <1>b, <1>f, <1>t, <1>u, <1>x, <2>1, <2>2, <2>3, FormMovesOn
\* The answer is lost: what was asked is kept.
<1>2. CASE UNCHANGED <<launchForm, request, shownRun, pointer>> /\ (runs' = runs \/ (known = 0 /\ runs' = Append(runs, row)))
  <2>1. LaunchTypes'
    BY <1>2, <1>b, <1>t, <1>u, NoRowChanges DEF LaunchInv, LaunchTypes, RowsStay
  <2>2. KeysCount'
    BY <1>2, <1>b, <1>t DEF LaunchInv, KeysCount
  <2>3. PageKnowsItsFile'
    BY <1>2, <1>p, <1>u DEF PageKnowsItsFile, HoldsFile, StandsFor, Launch!Attachments
  <2>4. LaunchFollowsForm' /\ LaunchHasItsFile' /\ LaunchIsKeyed'
    BY <1>2, <1>t, <1>u, IdleIsNoLaunch DEF LaunchFollowsForm, LaunchHasItsFile, LaunchIsKeyed
  <2>5. ASSUME NEW i \in DOMAIN runs', runs'[i].submission = launchForm.submission
        PROVE  ~ runs'[i].left /\ FormRemembers(i)'
    <3>1. /\ launch.submission = launchForm.submission
          /\ launch.project = launchForm.project /\ launch.prompt = launchForm.prompt
          /\ launch.file = launchForm.file
      BY <1>b, <1>l, <1>t, <1>x, <2>5
    <3>2. CASE i \in DOMAIN runs /\ runs'[i] = runs[i]
      <4>1. ~ runs[i].left /\ LaunchRemembers(i)
        BY <1>s, <2>5, <3>1, <3>2
      <4>2. QED
        BY <1>2, <1>l, <1>u, <3>1, <3>2, <4>1 DEF LaunchRemembers, FormRemembers, KeptFor
    <3>3. CASE known = 0 /\ i = Len(runs) + 1 /\ runs'[i] = row
      <4>1. ~ left
        BY <3>1 DEF left
      <4>2. \A j \in DOMAIN runs : runs[j].submission # launch.submission
        BY <1>n, <3>3, <4>1
      <4>3. launch.key = i
        BY <1>l, <1>t, <1>w, <3>3
      <4>4. request # None
        BY <1>l, <3>1
      <4>5. QED
        BY <1>2, <1>l, <1>r, <1>u, <3>1, <3>3, <4>1, <4>3, <4>4 DEF FormRemembers, KeptFor
    <3>4. QED
      BY <1>2, <1>a, <2>5, <3>2, <3>3
  <2>6. LostRunIsRemembered'
    BY <1>2, <1>u, <1>x, <2>5 DEF LostRunIsRemembered, Present
  <2>7. QED
    BY <1>b, <2>1, <2>2, <2>3, <2>4, <2>6 DEF LaunchInv
<1>3. QED
  BY <1>c, <1>1, <1>2


LEMMA LaunchNextKeeps ==
    ASSUME Launch!WorkspaceLaunchAssumption, LaunchInv, [Launch!Next]_(Launch!vars)
    PROVE  LaunchInv'
BY SubmitKeeps, CreateIntentKeeps, UploadKeeps, CompleteKeeps, WaitForCleanKeeps, CreateRunKeeps,
   FormStepsKeep, RestoreKeeps, ScanKeeps DEF Launch!Next, Launch!Launching

LEMMA LaunchInvariance == ASSUME Launch!WorkspaceLaunchAssumption PROVE Launch!Spec => []LaunchInv
<1>1. Launch!Init => LaunchInv
  BY LaunchInit
<1>2. LaunchInv /\ [Launch!Next]_(Launch!vars) => LaunchInv'
  BY LaunchNextKeeps
<1>3. QED
  BY <1>1, <1>2, PTL DEF Launch!Spec

LEMMA LaunchInvMeans ==
    ASSUME Launch!WorkspaceLaunchAssumption, LaunchInv
    PROVE  Launch!TypeOK /\ Launch!OneRunPerSubmission /\ Launch!RunHasItsFile
<1>1. Launch!TypeOK
  <2>1. DOMAIN records \subseteq Launch!Attachments /\ \A f \in Files : intent[f] \in Launch!Attachments \union {None}
    BY DEF LaunchInv, PageKnowsItsFile, HoldsFile
  <2>2. launch.step \in {"idle", "intent", "upload", "complete", "wait", "create"}
    BY IdleIsNoLaunch DEF LaunchInv, LaunchTypes, Started
  <2>3. \A n \in 0 .. MaxSubmissions : Launch!Cardinality(Launch!OfProject(n)) <= MaxAttachments
    <3>1. \A x : Launch!Cardinality(x) = Cardinality(x)
      BY DEF Launch!Cardinality, Cardinality, Launch!IsFiniteSet, IsFiniteSet
    <3>2. QED
      BY <3>1 DEF LaunchInv, LaunchTypes, FewRows, Launch!WorkspaceLaunchAssumption
  <2>4. QED
    BY <2>1, <2>2, <2>3 DEF LaunchInv, LaunchTypes, Launch!TypeOK, Launch!Runs
<1>2. Launch!OneRunPerSubmission /\ Launch!RunHasItsFile
  BY DEF LaunchInv, FilesOfRuns, Launch!RunHasItsFile, StandsFor, IsClean, Launch!Runs
<1>3. QED
  BY <1>1, <1>2

\* What a step does to the pointer in localStorage.
LEMMA StepKeepsPointer ==
    ASSUME Launch!WorkspaceLaunchAssumption, LaunchInv, [Launch!Next]_(Launch!vars)
    PROVE  Launch!ShownRunStaysReachable
<1>1. CASE UNCHANGED pointer
  BY <1>1 DEF Launch!ShownRunStaysReachable
<1>2. CASE Launch!StartNewProject
  BY <1>2 DEF Launch!ShownRunStaysReachable
<1>3. CASE Launch!CreateRun /\ ~ UNCHANGED pointer
  <2> DEFINE known == Launch!WithKey(launch.key)
  <2>1. launch.step = "create" /\ launch.key \in 1 .. Len(runs) + 1
    BY <1>3 DEF Launch!CreateRun, LaunchInv, LaunchIsKeyed
  <2>2. runs \in Seq(RunRow) /\ Len(runs) \in Nat /\ \A i \in DOMAIN runs : runs[i].key = i
    BY DEF LaunchInv, LaunchTypes, KeysCount
  <2>3. known \in Nat
    BY <2>1, <2>2, WithKeyFinds
  <2>4. /\ pointer' = shownRun'
        /\ shownRun' = IF known = 0 THEN Len(runs') ELSE known
        /\ known = 0 => \E r : runs' = Append(runs, r)
    BY <1>3 DEF Launch!CreateRun
  <2> HIDE DEF known
  <2>5. known = 0 => Len(runs') = Len(runs) + 1
    BY <2>2, <2>4
  <2>6. shownRun' \in Nat
    BY <2>2, <2>3, <2>4, <2>5
  <2>7. QED
    BY <2>1, <2>4, <2>6 DEF Launch!ShownRunStaysReachable, Launch!WorkspaceLaunchAssumption
<1>4. QED
  BY <1>1, <1>2, <1>3 DEF Launch!Next, Launch!vars, Launch!Launching, Launch!EditPrompt,
     Launch!SelectAttachments, Launch!Submit, Launch!CreateIntent, Launch!Upload, Launch!Complete,
     Launch!WaitForClean, Launch!Scan, Launch!Expire, Launch!Reload, Launch!Restore,
     Launch!RestoreFails, Launch!RetryRestore, Launch!AfterFailedRestore

\* launchRun and the form keep every variable's type, and no project gets more
\* attachments than it may.
THEOREM LaunchTypeCorrect ==
    ASSUME Launch!WorkspaceLaunchAssumption PROVE Launch!Spec => []Launch!TypeOK
<1>1. ASSUME Launch!WorkspaceLaunchAssumption PROVE LaunchInv => Launch!TypeOK
  BY <1>1, LaunchInvMeans
<1>2. QED
  BY <1>1, LaunchInvariance, PTL

\* runRequestRef's idempotency key: however often an unchanged form is submitted,
\* whichever of the answers are lost and whatever is edited while a launch is under
\* way, one submission creates at most one run, and one more only when a new project
\* was started under the launch, which forgets the key.
THEOREM OneRunPerSubmissionHolds ==
    ASSUME Launch!WorkspaceLaunchAssumption PROVE Launch!Spec => []Launch!OneRunPerSubmission
<1>1. ASSUME Launch!WorkspaceLaunchAssumption PROVE LaunchInv => Launch!OneRunPerSubmission
  BY <1>1, LaunchInvMeans
<1>2. QED
  BY <1>1, LaunchInvariance, PTL

\* uploadIntentsRef and attachmentRecords: a run gets a scanned file of its project, and
\* the one that its form held when it was submitted and not another of the same name;
\* unless that was chosen while an earlier launch was under way.
THEOREM RunHasItsFileHolds ==
    ASSUME Launch!WorkspaceLaunchAssumption PROVE Launch!Spec => []Launch!RunHasItsFile
<1>1. ASSUME Launch!WorkspaceLaunchAssumption PROVE LaunchInv => Launch!RunHasItsFile
  BY <1>1, LaunchInvMeans
<1>2. QED
  BY <1>1, LaunchInvariance, PTL

\* The saved pointer: a step moves it only to the run that a launch has just created
\* and shows, and takes it away only when the user starts a new project.
THEOREM ShownRunStaysReachableHolds ==
    ASSUME Launch!WorkspaceLaunchAssumption
    PROVE  Launch!Spec => [][Launch!ShownRunStaysReachable]_(Launch!vars)
<1>1. ASSUME Launch!WorkspaceLaunchAssumption
      PROVE  LaunchInv /\ [Launch!Next]_(Launch!vars) => Launch!ShownRunStaysReachable
  BY <1>1, StepKeepsPointer
<1>2. QED
  BY <1>1, LaunchInvariance, PTL DEF Launch!Spec
===============================================================================
