----------------------------- MODULE MCTopoSort -----------------------------
(* TopoSort on small graphs and on the diagram of src/filter/filter-sheme.xml. *)
EXTENDS TopoSort

\* Three blocks; one slot of the vector is empty.
Slots == {0, 1, 3}

\* The lines of different sources never meet in one list of destinations, so
\* it is enough to draw them source by source.
BySource(s) == \A i, j \in DOMAIN s : i < j => s[i].src <= s[j].src

Drawn(n, outs) ==
    UNION {{s \in [1 .. k -> [src: Slots, out: outs, dst: Slots, in: {1, 2}]] : BySource(s)} :
           k \in 0 .. n}

\* Two lines between any ports, or three that leave their blocks by one port.
SmallGraphs ==
    {[size |-> 4, blocks |-> Slots,
      delays |-> {b \in Slots : type[b] = "UnitDelay"},
      outports |-> {b \in Slots : type[b] = "Outport"}, lines |-> lines] :
        type \in [Slots -> {"UnitDelay", "Outport", "Sum"}],
        lines \in Drawn(2, {1, 2}) \cup Drawn(3, {1})}

Wire(s, d, i) == [src |-> s, out |-> 1, dst |-> d, in |-> i]

\* src/filter/filter-sheme.xml: a controller with one UnitDelay in a loop.
Sheme ==
    [size |-> 27, blocks |-> (16 .. 26) \ {24}, delays |-> {21}, outports |-> {20},
     lines |-> <<Wire(16, 17, 1), Wire(18, 17, 2), Wire(17, 25, 1), Wire(17, 19, 1),
                 Wire(21, 22, 2), Wire(22, 21, 1), Wire(22, 23, 2), Wire(19, 23, 1),
                 Wire(23, 20, 1), Wire(25, 26, 1), Wire(26, 22, 1)>>]

MCGraphs == {Sheme} \cup SmallGraphs

\* The diagrams a user can draw: Outports have no output, a port has one line.
MCDiagrams ==
    {g \in SmallGraphs :
        LET d == g.lines
        IN  /\ \A i \in DOMAIN d : d[i].src \notin g.outports
            /\ \A i, j \in DOMAIN d : d[i].dst = d[j].dst /\ d[i].in = d[j].in => i = j}
=============================================================================
