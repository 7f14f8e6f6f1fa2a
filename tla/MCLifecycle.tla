------------------------------ MODULE MCLifecycle ------------------------------
(* An instance of Lifecycle for TLC: lines of every kind the parser tells apart,
   two of them longer than the buffer. *)
EXTENDS Lifecycle

MCLines == {
    <<"add", "1", "2">>,
    <<"log", "2">>,
    <<"log", "2", EOL>>,                \* a space at the end: refused
    <<"add", "1", EOL>>,                \* a space at the end: producer 0
    <<"add", "1", "2", EOL, "log", "1">>,   \* its tail is a command
    <<>> }
=============================================================================
