--------------------------- MODULE FragmentWriter ---------------------------
(***************************************************************************)
(* One connection of the fragment tester (proxy.rs): the TLS client writes *)
(* its flights through a FragmentWriter or a FinalMaskWriter, which cut    *)
(* them up, send the pieces one by one and pause between them, and then    *)
(* the connection is held and a request is made.                           *)
(*                                                                         *)
(* A write is a sequence of TLS records.  On the wire a record is one unit *)
(* for its header, which says how many payload units follow; these are     *)
(* numbered across the connection.                                         *)
(***************************************************************************)
EXTENDS Integers, SequencesExt

CONSTANTS
  Writes,  \* bound: units the stream takes at once
  Flights  \* the writes of the TLS client: the hello first, then at least one
           \* more, each the numbers of the payload units that end its records

Before(w) == IF w = 1 THEN 0 ELSE Last(Flights[w - 1])

\* the client writes whole records, none of them empty
ASSUME FlightsAssumption ==
  /\ Flights \in Seq(Seq(Nat) \ {<<>>}) /\ Len(Flights) > 1
  /\ \A w \in DOMAIN Flights : \A r \in DOMAIN Flights[w] :
       Flights[w][r] > IF r = 1 THEN Before(w) ELSE Flights[w][r - 1]

VARIABLES
  profile,   \* the sequence of stages of the connection at work
  step,      \* where check_candidate is
  call,      \* the write that the TLS client is at
  flushed,   \* no write is half done
  counts, carries, \* per stage: the writes seen, the pause owed to the next
  stage, todo, out, \* the write on its way through the stages
  queue,     \* the pieces that have not left whole, [bytes, delay]
  wire,      \* what has left
  verdict    \* [tls, held, http]

cutting == <<stage, todo, out>>
sending == <<queue, wire>>
stages  == <<counts, carries>>
connection == <<profile, step, call, flushed, stages, cutting, sending, verdict>>

-----------------------------------------------------------------------------
(* Units on the wire.                                                      *)

Header(n) == [kind |-> "header", n |-> n]
Byte(n) == [kind |-> "byte", n |-> n]
Pause == [kind |-> "pause", n |-> 0]

\* ends says where the parts of something end; part k begins behind Edge
Edge(ends, k) == IF k = 1 THEN 0 ELSE ends[k - 1]

\* units in records: header r comes before the units of part r
Part(ends, p) == CHOOSE r \in DOMAIN ends : p \in (Edge(ends, r) + r)..(ends[r] + r)
Framed(units, ends) ==
  [p \in 1..(Len(units) + Len(ends)) |->
     LET r == Part(ends, p)
     IN IF p = Edge(ends, r) + r THEN Header(ends[r] - Edge(ends, r)) ELSE units[p - r]]

Buffer(w) ==
  Framed([j \in 1..(Before(w + 1) - Before(w)) |-> Byte(Before(w) + j)],
         [r \in DOMAIN Flights[w] |-> Flights[w][r] - Before(w)])

-----------------------------------------------------------------------------
(* Cutting.  Of a stage, packets names the writes in question, lengths and  *)
(* delays are patterns whose last entry repeats, and split is a range.      *)

Span == {r \in Nat \X Nat : r[1] <= r[2]}
Stage == [packets : {"tlshello", "all", "range"}, writes : Span,
          lengths : Seq(Span) \ {<<>>}, delays : Seq(Span) \ {<<>>}, split : Span]

\* rand_between: the upper bound is left out
Between(r) == IF r[1] = r[2] THEN {r[1]} ELSE r[1]..(r[2] - 1)

\* clamped_range
At(pattern, k) == pattern[IF k > Len(pattern) THEN Len(pattern) ELSE k]

Matches(s, data, count) ==
  CASE s.packets = "tlshello" -> count = 1 /\ data[1].kind = "header" /\ Len(data) > data[1].n
    [] s.packets = "all" -> TRUE
    [] s.packets = "range" -> count \in s.writes[1]..s.writes[2]

\* what a pattern may draw for pieces 1..n
Draws(pattern, n) ==
  {d \in [1..n -> UNION {Between(pattern[i]) : i \in DOMAIN pattern}] :
     \A k \in 1..n : d[k] \in Between(At(pattern, k))}

\* the ways to cut n units, each the places where its pieces end: the pieces
\* have the lengths drawn for them, the last one what is left, and there are at
\* most cap pieces unless cap is 0
InOrder(points) ==
  [k \in 1..Cardinality(points) |->
     CHOOSE v \in points : Cardinality({w \in points : w < v}) = k - 1]
Size(c, k) == c[k] - Edge(c, k)
Shaped(s, n) ==
  {c \in {InOrder(points \cup {n}) : points \in SUBSET (1..(n - 1))} :
     \A k \in 1..(Len(c) - 1) : Size(c, k) \in Between(At(s.lengths, k))}
Fits(s, c) == \E l \in Between(At(s.lengths, Len(c))) : l >= Size(c, Len(c))

Cuts(s, n, cap) ==
  {c \in Shaped(s, n) : (cap = 0 \/ Len(c) <= cap) /\ (Fits(s, c) \/ Len(c) = cap)}

Pieces(data, c) == [k \in DOMAIN c |-> SubSeq(data, Edge(c, k) + 1, c[k])]

\* each piece of the payload becomes a record of its own
Rewrapped(p) == <<Header(Len(p))>> \o p

\* the pieces with the pause before each; the last draw is owed afterwards
Paused(ps, d) == [k \in DOMAIN ps |-> [bytes |-> ps[k], delay |-> IF k = 1 THEN 0 ELSE d[k - 1]]]

\* a single zero delay: all records of the hello leave in one write
Combines(s) == Len(s.delays) = 1 /\ s.delays[1][2] = 0

\* push_tlshello, and split_stage of a hello.  In a profile of several stages
\* one that does not combine drops what follows the record; no profile has one
HelloItems(s, data, c, d) ==
  LET n == data[1].n
      payload == SubSeq(data, 2, n + 1)
      ps == Pieces(payload, c)
      tail == SubSeq(data, n + 2, Len(data))
      Behind(delay) == IF tail = <<>> THEN <<>> ELSE <<[bytes |-> tail, delay |-> delay]>>
  IN IF Combines(s) THEN <<[bytes |-> Framed(payload, c), delay |-> 0]>> \o Behind(0)
     ELSE Paused([k \in DOMAIN ps |-> Rewrapped(ps[k])], d)
            \o (IF Len(profile) = 1 THEN Behind(Last(d)) ELSE <<>>)

\* the pause that the stage owes to the first piece it emits next: a delay
\* drawn behind the last piece is not lost
Owed_Dropped(item, carry) == item
Owed(item, carry) == [item EXCEPT !.delay = @ + carry]

Emit(items, carry) == <<Owed(items[1], carry)>> \o Tail(items)

-----------------------------------------------------------------------------
(* check_candidate_fragmented_profile.                                     *)

Fresh == [tls |-> FALSE, held |-> FALSE, http |-> FALSE]

\* a connection that has not been made
Unconnected(p, s) ==
  /\ profile' = p /\ step' = s
  /\ call' = 1 /\ flushed' = TRUE
  /\ counts' = [i \in DOMAIN p |-> 0] /\ carries' = [i \in DOMAIN p |-> 0]
  /\ stage' = 0 /\ todo' = <<>> /\ out' = <<>>
  /\ queue' = <<>> /\ wire' = <<>>
  /\ verdict' = Fresh

Connect ==
  /\ step = "connect"
  /\ step' \in {"handshake", "done"}
  /\ UNCHANGED <<profile, call, flushed, stages, cutting, sending, verdict>>

\* poll_write: the pieces of the write at hand go first.  While some are left
\* the answer is Pending and the client offers the same write again; that one
\* is not cut again, it is reported as written
Drained == stage = 0 /\ queue = <<>>

New_Always(f) == TRUE
New(f) == f

\* the client waits for the server after its hello, and for the response
After(w) == CASE w = 1 -> "server" [] w = Len(Flights) -> "reply" [] OTHER -> "hold"

PollWrite ==
  /\ step \in {"handshake", "request"} /\ Drained
  /\ IF New(flushed)
     THEN /\ flushed' = FALSE
          /\ stage' = 1 /\ todo' = <<[bytes |-> Buffer(call), delay |-> 0]>> /\ out' = <<>>
          /\ UNCHANGED <<step, call>>
     ELSE /\ flushed' = TRUE /\ call' = call + 1 /\ step' = After(call)
          /\ UNCHANGED cutting
  /\ UNCHANGED <<profile, stages, sending, verdict>>

\* one write of the stage above through the next stage
Cut ==
  /\ stage \in DOMAIN profile /\ todo # <<>>
  /\ LET s == profile[stage]
         item == todo[1]
         count == counts[stage] + 1
         hello == s.packets = "tlshello"
         Goes(items, trailing) ==
           /\ out' = out \o Emit([items EXCEPT ![1].delay = @ + item.delay], carries[stage])
           /\ carries' = [carries EXCEPT ![stage] = trailing]
     IN /\ counts' = [counts EXCEPT ![stage] = count]
        /\ IF ~Matches(s, item.bytes, count) THEN Goes(<<[item EXCEPT !.delay = 0]>>, 0)
           ELSE \E cap \in Between(s.split) :
                \E c \in Cuts(s, IF hello THEN item.bytes[1].n ELSE Len(item.bytes), cap) :
                \E d \in Draws(s.delays, Len(c)) :
                  IF hello
                  THEN Goes(HelloItems(s, item.bytes, c, d),
                            IF Len(profile) = 1 \/ Combines(s) THEN 0 ELSE Last(d))
                  ELSE Goes(Paused(Pieces(item.bytes, c), d), Last(d))
  /\ todo' = Tail(todo)
  /\ UNCHANGED <<profile, step, call, flushed, stage, sending, verdict>>

NextStage ==
  /\ stage # 0 /\ (stage \notin DOMAIN profile \/ todo = <<>>)
  /\ LET done == IF todo = <<>> THEN out ELSE todo
     IN IF stage < Len(profile)
        THEN stage' = stage + 1 /\ todo' = done /\ UNCHANGED queue
        ELSE stage' = 0 /\ todo' = <<>> /\ queue' = done
  /\ out' = <<>>
  /\ UNCHANGED <<profile, step, call, flushed, stages, wire, verdict>>

\* drain_queue: the pause before a piece comes first
Wake ==
  /\ step # "done" /\ stage = 0 /\ queue # <<>> /\ queue[1].delay > 0
  /\ queue' = [queue EXCEPT ![1].delay = 0] /\ wire' = Append(wire, Pause)
  /\ UNCHANGED <<profile, step, call, flushed, stages, cutting, verdict>>

\* the stream takes part of the piece or all of it
Deliver(n) ==
  /\ step # "done" /\ stage = 0 /\ queue # <<>> /\ queue[1].delay = 0
  /\ LET piece == queue[1].bytes
         left == SubSeq(piece, n + 1, Len(piece))
     IN /\ n \in 1..Len(piece)
        /\ wire' = wire \o SubSeq(piece, 1, n)
        /\ queue' = IF left = <<>> THEN Tail(queue) ELSE [queue EXCEPT ![1].bytes = left]
  /\ UNCHANGED <<profile, step, call, flushed, stages, cutting, verdict>>

ServerFlight ==
  /\ step = "server" /\ step' = "handshake"
  /\ UNCHANGED <<profile, call, flushed, stages, cutting, sending, verdict>>

\* idle_hold; a connection that does not survive it is tried all the same
Hold ==
  /\ step = "hold" /\ step' = "request"
  /\ \E held \in BOOLEAN : verdict' = [verdict EXCEPT !.tls = TRUE, !.held = held]
  /\ UNCHANGED <<profile, call, flushed, stages, cutting, sending>>

\* http_probe
Reply ==
  /\ step = "reply" /\ step' = "done"
  /\ \E http \in BOOLEAN : verdict' = [verdict EXCEPT !.http = http]
  /\ UNCHANGED <<profile, call, flushed, stages, cutting, sending>>

\* an error, or the timeout of the handshake
Broken ==
  /\ step \in {"handshake", "server", "request"} /\ step' = "done"
  /\ UNCHANGED <<profile, call, flushed, stages, cutting, sending, verdict>>

Connection ==
  \/ Connect \/ PollWrite \/ Cut \/ NextStage \/ Wake
  \/ \E n \in 1..Writes : Deliver(n)
  \/ ServerFlight \/ Hold \/ Reply \/ Broken

-----------------------------------------------------------------------------
(* Properties.                                                             *)

\* units of a kind among the first i
Count(kind, i) == Cardinality({j \in 1..i : wire[j].kind = kind})
Hello == Flights[1][1]

\* README: "maxSplit caps the number of fragments" the hello is cut into
SplitCapped ==
  \A x \in DOMAIN profile : LET s == profile[x] IN
    s.packets = "tlshello" /\ s.split[1] > 0 =>
      \A i \in DOMAIN wire :
        wire[i].kind = "byte" /\ Count("byte", i) <= Hello => Count("header", i) <= s.split[2]

\* However a flight is cut, whatever part of a piece the stream takes and
\* however often the client is told to wait and offers its write again: the
\* payload leaves in order, once, in records whose headers are right, and a
\* write reported done has left as a whole, cut into no more than the profile's
\* cap.
Reassembles ==
  /\ \A i \in DOMAIN wire : wire[i].kind = "byte" => wire[i].n = Count("byte", i)
  /\ \A i, j \in DOMAIN wire :
       LET place == Cardinality({m \in (i + 1)..j : wire[m].kind # "pause"})
       IN wire[i].kind = "header" /\ i < j /\ wire[j].kind # "pause" /\ place <= wire[i].n + 1
            => (wire[j].kind = "byte" <=> place <= wire[i].n)
  /\ Count("byte", Len(wire)) >= Before(call)
  /\ SplitCapped

\* Where a profile of one stage has an interval, pieces do not leave back to back,
\* however the stream takes them.  Of a profile that cuts every write without a
\* cap: units between which nothing pauses are fewer than two pieces can be, so
\* that there is a pause within a write, and between the last piece of a write
\* and the first of the next.  Of one that cuts the hello: pieces of the hello are
\* apart, and the last of them is from what follows it in the same write.  Nothing
\* is said of a profile that cuts a range of the writes, of one that cuts every
\* write under a cap, nor of the writes after the one with the hello: for the
\* step from that to the next, see HelloPauseKept.
Longest(s) == LET ls == UNION {Between(s.lengths[i]) : i \in DOMAIN s.lengths}
              IN CHOOSE l \in ls : \A m \in ls : m <= l
AllDelayed(s) == \A i \in DOMAIN s.delays : s.delays[i][1] > 0
Unpaused(i, j) == \A k \in i..j : wire[k].kind # "pause"
PausesKept ==
  \A x \in DOMAIN profile : LET s == profile[x] IN
    Len(profile) = 1 /\ AllDelayed(s) =>
      \A i, j \in DOMAIN wire : i < j /\ Unpaused(i, j) =>
        IF s.packets = "all" THEN s.split = <<0, 0>> => j - i < Longest(s)
        ELSE s.packets = "tlshello" /\ Count("byte", j) <= Hello /\ Count("byte", j) < Before(2) =>
               ~(wire[i].kind = "header" /\ wire[j].kind = "header")

\* What the comments say of FragmentItem and of carry_delay: there is a pause after
\* each piece of the hello, the last one too, before whatever follows.  The code
\* drops the last one when the first write ends with the hello.
HelloPauseKept ==
  \A x \in DOMAIN profile : LET s == profile[x] IN
    Len(profile) = 1 /\ s.packets = "tlshello" /\ AllDelayed(s) =>
      \A i \in DOMAIN wire : wire[i] = Byte(Hello) /\ i < Len(wire) => wire[i + 1] = Pause
=============================================================================
