---------------------------- MODULE MCMemWorkers ----------------------------
(* Two workers and two descriptors.  Each configuration is small where the *)
(* others are large: the commands, the clients, the pauses.                *)
EXTENDS MemWorkers

Get == <<"get">>
SetGet == <<"set", "data", "get">>
Pipelined == <<"get", "get", "get">>

Config(shared, scripts, faults, clients, expansions) ==
  [shared |-> shared, batch |-> 2, scripts |-> scripts, faults |-> faults,
   accepts |-> clients, pauses |-> expansions]

MCConfigs ==
  {Config(FALSE, {SetGet}, {"oom", "ext", "send"}, 1, 1), Config(FALSE, {Get}, {"ext", "send"}, 2, 0),
   Config(FALSE, {Pipelined}, {}, 1, 0), Config(TRUE, {Get}, {}, 1, 1), Config(TRUE, {Get}, {"pri", "ext"}, 1, 0),
   [Config(TRUE, {<<"get", "get">>}, {"ext"}, 1, 0) EXCEPT !.batch = 1]}

\* mem/ with one client that has no priority and no value on flash.
SharedConfigs == {Config(TRUE, {Get}, {}, 1, 0)}
=============================================================================
