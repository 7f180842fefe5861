----------------------------- MODULE MCStartup -----------------------------
(* Instances of Startup for TLC, for three threads. *)
EXTENDS Startup
CONSTANTS a, b, c
Threads(x, y, z) == [th \in Thread |-> CASE th = a -> x [] th = b -> y [] th = c -> z]
\* The first hook calls of two threads, one of which starts the library, with a third that opens
\* and closes.
Race == [api |-> "O", compat |-> TRUE, status |-> "UNINIT", loaded |-> {"libdl", "old"},
         does |-> Threads({"init", "hook"}, {"hook"}, {"open", "close"}),
         calls |-> Threads(2, 1, 1), faults |-> 0]
\* Faults and failing allocations.
Faulty == [api |-> "J", compat |-> TRUE, status |-> "UNINIT", loaded |-> {"libdl"},
           does |-> Threads({"init", "hook"}, {"hook"}, {}),
           calls |-> Threads(2, 1, 0), faults |-> 2]
\* Callbacks, before and after the first hook call.
Callback == [api |-> "J", compat |-> TRUE, status |-> "UNINIT", loaded |-> {"libdl"},
             does |-> Threads({"init", "hook"}, {"callback"}, {"open"}),
             calls |-> Threads(2, 2, 1), faults |-> 1]
\* Constructors that open and close, whether the linker's mutex can be read or not.
Nested(known) ==
    [api |-> "L", compat |-> known, status |-> "OK", loaded |-> {"libdl"},
     does |-> Threads({"hook"}, {}, {"open", "close"}), calls |-> Threads(1, 0, 3), faults |-> 0]
MCScenarios == {Race, Faulty, Callback, Nested(TRUE), Nested(FALSE)}
MCSignals == <<"SEGV", "BUS">>
=============================================================================
