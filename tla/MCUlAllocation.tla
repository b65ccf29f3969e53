--------------------------- MODULE MCUlAllocation ---------------------------
(* UlAllocation for the connections of two stations. *)
EXTENDS UlAllocation

CONSTANTS b1, b2, u1, e1, r1, n2, x1, x2, x3

\* In list order: the stations' basic connections, then data connections of all classes
MCConns == <<b1, b2, u1, x1, x2, e1, r1, n2, x3>>

MCKind == b1 :> "basic" @@ b2 :> "basic" @@ u1 :> "UGS" @@ e1 :> "ertPS"
          @@ r1 :> "rtPS" @@ n2 :> "nrtPS" @@ [c \in {x1, x2, x3} |-> "BE"]

MCBasic == [c \in {b1, u1, e1, r1, x1} |-> b1] @@ [c \in {b2, n2, x2, x3} |-> b2]
MCReserved == [c \in ToSet(MCConns) |-> IF c \in {b1, b2, x1, x2, x3} THEN 0 ELSE 1]
MCPeriod == [c \in ToSet(MCConns) |-> IF c = r1 THEN 2 ELSE 1]
MCCodes == [c \in ToSet(MCConns) |-> IF c \in {b2, x1} THEN {1} ELSE {}]

\* Bytes, with two to a slot
MCRequests ==
    b1 :> {3} @@ b2 :> {} @@ u1 :> {} @@ e1 :> {1} @@ r1 :> {3} @@ n2 :> {5}
       @@ x1 :> {1, 5} @@ x2 :> {5} @@ x3 :> {3}
=============================================================================
