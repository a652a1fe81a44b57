---------------------------- MODULE MCSignaling ----------------------------
(* Tables for TLC: who knows whom. *)
EXTENDS Signaling

CONSTANTS s, a, b, c, d

\* Two ways to c, who knows d; a and b pass the message to each other, and
\* back to s.
Ring == s :> {a, b} @@ a :> {s, b, c} @@ b :> {a, c} @@ c :> {d} @@ d :> {c}

\* A circle; nobody knows d, until c meets it.
NoWay == s :> {a} @@ a :> {b} @@ b :> {s, c} @@ c :> {a} @@ d :> {s}

\* s asks a, who knows d.
Near == s :> {a} @@ a :> {s, d} @@ d :> {a} @@ b :> {} @@ c :> {}

Topologies == {Ring, NoWay}
NearOnly == {Near}
Late == {<<c, d>>}
SourceMeetsDest == {<<s, d>>}
=============================================================================
