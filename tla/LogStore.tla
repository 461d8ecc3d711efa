------------------------------ MODULE LogStore ------------------------------
(***************************************************************************)
(* The log ring buffer with its broadcast: several streams push batches,   *)
(* readers query pages and follow the tail.                                *)
(*                                                                         *)
(* What is kept and what is abstracted:                                    *)
(*  - An entry is the stream that pushed it and its number; a filter is    *)
(*    the set of streams it lets through.                                  *)
(*  - A push holds the buffer's lock for its whole batch and broadcasts    *)
(*    each entry before it stores it.                                      *)
(*  - The broadcast channel keeps its last LogRing entries: a receiver     *)
(*    that has fallen further behind is told so and moved to the oldest.   *)
(***************************************************************************)
EXTENDS Naturals, SequencesExt

CONSTANTS
  Pushers, Tails,  \* streams that push; clients that follow
  LogCap,          \* capacity of the buffer
  LogRing,         \* capacity of the broadcast channel
  LogBatches,      \* sizes of the batches
  LogMaxPage,      \* MAX_PAGE_SIZE
  LogMaxEntries    \* bound on entries pushed by one stream

ASSUME LogAssumption ==
  LogCap \in Nat /\ LogRing \in Nat \ {0} /\ LogMaxEntries \in Nat
  /\ LogMaxPage \in Nat \ {0}
  /\ LogBatches \subseteq Nat \ {0}

LogEntries == [by : Pushers, n : 1 .. LogMaxEntries]

VARIABLES
  lgBuf,     \* entries: the ring buffer
  lgLock,    \* the pusher that holds its lock, as a set
  lgTodo,    \* pusher -> entries of its batch still to push
  lgCount,   \* pusher -> entries pushed
  lgSent,    \* every entry broadcast, in order
  lgHalf,    \* the entry broadcast and not yet stored, as a set
  lgTail     \* client -> whether it follows, since when, its next position,
             \* its filter, what it was given, and how many it missed

lgVars == <<lgBuf, lgLock, lgTodo, lgCount, lgSent, lgHalf, lgTail>>

LogFilters == SUBSET Pushers
NoTail == [on |-> FALSE, from |-> 1, next |-> 1, filter |-> {}, got |-> <<>>,
           missed |-> {}]

Followers == [on : BOOLEAN, from : Nat, next : Nat, filter : LogFilters,
              got : Seq(LogEntries), missed : SUBSET Nat]

LogTypeOK ==
  /\ lgBuf \in Seq(LogEntries) /\ Len(lgBuf) <= LogCap + 1
  /\ lgLock \in {{}} \cup {{p} : p \in Pushers}
  /\ lgTodo \in [Pushers -> Nat] /\ lgCount \in [Pushers -> Nat]
  /\ lgSent \in Seq(LogEntries)
  /\ lgHalf \in {{}} \cup {{e} : e \in LogEntries}
  /\ lgTail \in [Tails -> Followers]

LogInit ==
  /\ lgBuf = <<>> /\ lgLock = {}
  /\ lgTodo = [p \in Pushers |-> 0] /\ lgCount = [p \in Pushers |-> 0]
  /\ lgSent = <<>> /\ lgHalf = {}
  /\ lgTail = [t \in Tails |-> NoTail]

PushLogs(p) ==
  /\ lgTodo[p] = 0
  /\ \E k \in LogBatches :
       /\ lgCount[p] + k <= LogMaxEntries
       /\ lgTodo' = [lgTodo EXCEPT ![p] = k]
  /\ UNCHANGED <<lgBuf, lgLock, lgCount, lgSent, lgHalf, lgTail>>

LockFree == lgLock = {}

LockBuffer(p) ==
  /\ lgTodo[p] > 0 /\ p \notin lgLock /\ LockFree
  /\ lgLock' = {p}
  /\ UNCHANGED <<lgBuf, lgTodo, lgCount, lgSent, lgHalf, lgTail>>

BroadcastEntry(p) ==
  /\ p \in lgLock /\ lgTodo[p] > 0 /\ lgHalf = {}
  /\ LET e == [by |-> p, n |-> lgCount[p] + 1]
     IN  lgSent' = Append(lgSent, e) /\ lgHalf' = {e}
  /\ lgCount' = [lgCount EXCEPT ![p] = @ + 1]
  /\ UNCHANGED <<lgBuf, lgLock, lgTodo, lgTail>>

\* Mutant of StoreEntry: an entry is dropped when the buffer is just full.
StoreEntryDropsEarly(p) ==
  /\ p \in lgLock
  /\ \E e \in lgHalf :
       LET all == Append(lgBuf, e)
       IN  lgBuf' = IF Len(all) >= LogCap THEN Tail(all) ELSE all
  /\ lgHalf' = {}
  /\ lgTodo' = [lgTodo EXCEPT ![p] = @ - 1]
  /\ lgLock' = IF lgTodo[p] = 1 THEN {} ELSE lgLock
  /\ UNCHANGED <<lgCount, lgSent, lgTail>>

\* push_back, then pop_front when the buffer is over its capacity.
StoreEntry(p) ==
  /\ p \in lgLock
  /\ \E e \in lgHalf :
       LET all == Append(lgBuf, e)
       IN  lgBuf' = IF Len(all) > LogCap THEN Tail(all) ELSE all
  /\ lgHalf' = {}
  /\ lgTodo' = [lgTodo EXCEPT ![p] = @ - 1]
  /\ lgLock' = IF lgTodo[p] = 1 THEN {} ELSE lgLock
  /\ UNCHANGED <<lgCount, lgSent, lgTail>>

TailLogs(t, f) ==
  /\ ~lgTail[t].on
  /\ lgTail' = [lgTail EXCEPT ![t] =
       [NoTail EXCEPT !.on = TRUE, !.from = Len(lgSent) + 1,
                      !.next = Len(lgSent) + 1, !.filter = f]]
  /\ UNCHANGED <<lgBuf, lgLock, lgTodo, lgCount, lgSent, lgHalf>>

MatchesFilter(e, f) == e.by \in f

\* Position of the oldest entry the channel still has.
OldestKept == IF Len(lgSent) > LogRing THEN Len(lgSent) - LogRing + 1 ELSE 1

TailReceives(t) ==
  /\ lgTail[t].on /\ lgTail[t].next <= Len(lgSent)
  /\ LET c == lgTail[t] IN
     IF c.next < OldestKept
       THEN lgTail' = [lgTail EXCEPT ![t].next = OldestKept,
                         ![t].missed = @ \cup (c.next .. OldestKept - 1)]
       ELSE lgTail' = [lgTail EXCEPT ![t].next = @ + 1,
              ![t].got = IF MatchesFilter(lgSent[c.next], c.filter)
                           THEN Append(@, lgSent[c.next]) ELSE @]
  /\ UNCHANGED <<lgBuf, lgLock, lgTodo, lgCount, lgSent, lgHalf>>

LogNext ==
  \/ \E p \in Pushers :
       PushLogs(p) \/ LockBuffer(p) \/ BroadcastEntry(p) \/ StoreEntry(p)
  \/ \E t \in Tails :
       TailReceives(t) \/ \E f \in LogFilters : TailLogs(t, f)

LogSpec == LogInit /\ [][LogNext]_lgVars

-----------------------------------------------------------------------------
(* Reading pages *)

\* iter().filter(): a function on the length read so far.
Matching(buf, f) ==
  LET kept[n \in 0 .. Len(buf)] ==
        IF n = 0 THEN <<>>
          ELSE IF MatchesFilter(buf[n], f) THEN Append(kept[n - 1], buf[n])
                 ELSE kept[n - 1]
  IN  kept[Len(buf)]

QueryLogs(f) == Matching(lgBuf, f)

\* Clamped to 1 .. MAX_PAGE_SIZE.
PageSize(asked) ==
  CASE asked = 0 -> 1
    [] asked \in 1 .. LogMaxPage -> asked
    [] asked > LogMaxPage -> LogMaxPage
Offset(page, asked) == ((IF page = 0 THEN 1 ELSE page) - 1) * PageSize(asked)

\* skip(offset).take(page_size)
ListLogs(f, page, asked) ==
  LET all == QueryLogs(f)
      from == Offset(page, asked) + 1
      to == Offset(page, asked) + PageSize(asked)
  IN  SubSeq(all, from, IF to < Len(all) THEN to ELSE Len(all))

TotalPages(f, asked) ==
  (Len(QueryLogs(f)) + PageSize(asked) - 1) \div PageSize(asked)

-----------------------------------------------------------------------------
(* Properties *)

\* Positions of the entries a follower has passed and was not told it missed.
SeenBy(c, sent) ==
  {i \in c.from .. c.next - 1 :
     i \notin c.missed /\ MatchesFilter(sent[i], c.filter)}

\* Whenever the lock is free the buffer holds the most recent entries in the
\* order in which they were broadcast, whoever pushed them.
BufferIsRecent ==
  lgLock = {} =>
    LET n == Len(lgSent)
    IN  lgBuf = SubSeq(lgSent, IF n > LogCap THEN n - LogCap + 1 ELSE 1, n)

\* A follower gets every matching entry broadcast since it subscribed, once
\* and in order, but for the ones its own lag pushed out of the channel: the
\* k-th position it has seen holds the k-th entry it was given.
FollowerSound(c, sent) ==
  LET seen == SeenBy(c, sent)
  IN  /\ Len(c.got) = Cardinality(seen)
      /\ \A i \in seen : c.got[Cardinality({j \in seen : j <= i})] = sent[i]
      /\ \A i \in c.missed : i + LogRing <= Len(sent)

TailSound == \A t \in Tails : FollowerSound(lgTail[t], lgSent)

\* The pages of a filter, one after the other, are its query.
PagesPartition ==
  \A f \in LogFilters, asked \in 0 .. LogCap :
    FlattenSeq([k \in 1 .. TotalPages(f, asked) |-> ListLogs(f, k, asked)])
      = QueryLogs(f)

\* What readers of the log see is what was pushed.
LogSound == BufferIsRecent /\ TailSound /\ PagesPartition

-----------------------------------------------------------------------------
(* The inductive invariant of the buffer and its followers *)

\* Entries that went through the buffer: all but the one on its way there.
Stored == IF lgHalf = {} THEN Len(lgSent) ELSE Len(lgSent) - 1

\* A buffer with the last LogCap of the first n entries.
KeepsLast(buf, sent, n) ==
  /\ Len(buf) = IF n > LogCap THEN LogCap ELSE n
  /\ \A i \in 1 .. Len(buf) : buf[i] = sent[n - Len(buf) + i]

LogKept ==
  /\ lgHalf # {} => lgSent # <<>> /\ lgHalf = {lgSent[Len(lgSent)]}
  /\ KeepsLast(lgBuf, lgSent, Stored)

\* Only the holder of the lock has an entry on its way.
LogHeld ==
  /\ lgHalf # {} => lgLock # {}
  /\ \A p \in Pushers :
       /\ p \in lgLock => lgTodo[p] > 0
       /\ lgCount[p] + lgTodo[p] <=
            IF lgHalf # {} /\ p \in lgLock THEN LogMaxEntries + 1
              ELSE LogMaxEntries

\* A follower is inside what was broadcast, past everything it missed.
FollowerPlace(c, sent) ==
  /\ 1 <= c.from /\ c.from <= c.next /\ c.next <= Len(sent) + 1
  /\ \A i \in c.missed : i < c.next

LogInv ==
  /\ LogTypeOK /\ LogKept /\ LogHeld /\ TailSound
  /\ \A t \in Tails : FollowerPlace(lgTail[t], lgSent)
=============================================================================
