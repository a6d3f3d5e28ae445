------------------------------ MODULE MCTangor ------------------------------
(* Small netlists for Tangor: nets 2 and 3 are inputs, whose ports the JSON *)
(* file lists in the other order.                                           *)
EXTENDS Tangor

Cell(type, y, a, b, s) ==
    [type |-> type, Y |-> y, X |-> y, A |-> a, B |-> b, S |-> s]
Not(y, a) == Cell("NOT", y, a, a, a)
Gate2(type, y, a, b) == Cell(type, y, a, b, a)
Dff(q, d) == Cell(FlipFlop, q, d, d, d)
FullAdder(y, x, a, b, c) ==
    [type |-> "fa", Y |-> y, X |-> x, A |-> a, B |-> b, S |-> c]
Circuit(outs, cells) ==
    [ins |-> <<3, 2>>, outs |-> outs, inout |-> FALSE, cells |-> cells]

\* Three gates on nets 4, 5 and 6 in order, the second first, or the last first.
\* Net 5 is an output that the last gate may read.
Combinational ==
    {Circuit(<<6, 5>>, cells) :
        cells \in UNION {{<<x, y, z>>, <<y, x, z>>, <<z, x, y>>} :
            x \in {Gate2("ANDNOT", 4, 2, 3), Gate2("ANDNOT", 4, 3, 2)},
            y \in {Gate2("ORNOT", 5, 3, 4), Cell("MUX", 5, 2, 3, 4),
                   Cell("NMUX", 5, 4, 3, 2)},
            z \in {Gate2("NAND", 6, 4, 5), Not(6, 5), Gate2("XOR", 6, 2, 4)}}}

\* Adder cells, which have no codelet, beside gates that do not need them.
Adders ==
    {Circuit(<<5, 7>>, <<x, FullAdder(5, 6, 2, 3, c), y>>) :
        x \in {Not(4, 2)}, c \in {0, 4},
        y \in {Gate2("OR", 7, 4, 3), Gate2("OR", 7, 4, 6)}}

\* A register on net 7, fed by net 4; net 4, or the register itself, may be an
\* output.
Registers ==
    {Circuit(outs, cells) :
        outs \in {<<6>>, <<6, 4>>, <<7, 6>>},
        cells \in {<<Dff(7, 4), Gate2("XOR", 4, 2, 3), Gate2("AND", 6, 3, 4)>>,
                   <<Dff(7, 4), Gate2("XOR", 4, 2, 7), Gate2("AND", 6, 3, 4)>>,
                   <<Gate2("XOR", 4, 2, 7), Not(6, 7), Dff(7, 4)>>}}

\* Outputs that are inputs, or occur twice; ports and constants that the parser
\* refuses.
FeedThrough == Circuit(<<4, 2>>, <<Not(4, 3)>>)
Repeated == Circuit(<<4, 4>>, <<Not(4, 3)>>)
Refused ==
    {[Repeated EXCEPT !.inout = TRUE], Circuit(<<4, 1>>, <<Not(4, 3)>>),
     Circuit(<<4>>, <<Gate2("OR", 4, 2, 0)>>)}

AllCircuits ==
    Combinational \cup Adders \cup Registers \cup {FeedThrough, Repeated}
        \cup Refused

\* Output 3 is an input, and the gate of output 5 is listed before its driver:
\* both have the value of net 3.
FeedThroughAndReversed == {Circuit(<<5, 3>>, <<Not(5, 4), Not(4, 3)>>)}
============================================================================
