----------------------------- MODULE MCTesters -----------------------------
(* The testers: with profiles of each shape, and with none for the speed tests. *)
EXTENDS Testers

\* a hello of three units with a record behind it, then one record each
MCFlights == <<<<3, 4>>, <<5>>, <<6>>>>

\* a hello with nothing behind it
MCBareFlights == <<<<3>>, <<4>>, <<5>>>>

Profile(packets, lengths, delays, split) ==
  [packets |-> packets, writes |-> <<1, 1>>, lengths |-> lengths, delays |-> delays, split |-> split]

Combined == <<Profile("tlshello", <<<<1, 3>>>>, <<<<0, 0>>>>, <<0, 0>>)>>
Capped == <<Profile("tlshello", <<<<1, 1>>>>, <<<<1, 1>>>>, <<2, 2>>)>>
Chunks == <<Profile("all", <<<<2, 4>>>>, <<<<1, 1>>>>, <<0, 0>>)>>
First == <<Profile("range", <<<<2, 2>>>>, <<<<0, 2>>>>, <<0, 0>>)>>
Double == <<Profile("tlshello", <<<<1, 1>>, <<2, 2>>>>, <<<<0, 0>>>>, <<0, 0>>),
            Profile("range", <<<<3, 3>>, <<1, 1>>>>, <<<<1, 1>>>>, <<3, 3>>)>>

\* a sweep of two profiles for the screens, and one of each shape for the wire;
\* a session without profiles is one of speed tests
MCSweeps == {<<>>, <<<<>>, <<>>>>} \cup {<<p>> : p \in {Combined, Capped, Chunks, First, Double}}
=============================================================================
