----------------------------- MODULE MCDecisions -----------------------------
(* Instances of Commerce, and with it of Decisions, for TLC. *)
EXTENDS Commerce, Sequences

Product(daily, minimum, maximum, lead, cost) ==
  [daily |-> daily, minimum |-> minimum, maximum |-> maximum, lead |-> lead,
   price |-> 100, cost |-> cost]

\* Two that sell, one that sells fast and arrives late, one dear one and one nobody
\* buys.
Catalogue == <<Product(1, 2, 6, 2, 60), Product(2, 1, 8, 1, 2000), Product(4, 1, 9, 3, 60),
               Product(1, 1, 3, 4, 9000), Product(0, 1, 4, 2, 9000)>>

At(current, sold, idle) ==
  [current |-> current, reserved |-> 0, incoming |-> 0, sold |-> sold,
   idle |-> idle, active |-> TRUE]

\* Shelves running empty, shelves too full, and both at once.
Empty == <<At(1, 4, FALSE), At(0, 4, FALSE), At(2, 1, FALSE), At(4, 1, FALSE), At(1, 0, FALSE)>>
Full == <<At(16, 4, FALSE), At(201, 2, FALSE), At(9, 2, FALSE), At(101, 1, FALSE), At(5, 0, TRUE)>>
Both == <<At(0, 4, FALSE), At(0, 4, FALSE), At(10, 1, FALSE), At(9, 0, FALSE), At(4, 0, TRUE)>>
Starts == {Empty, Full, Both}

Performed(views, rate, orders, revenue, margin) ==
  [views |-> views, rate |-> rate, orders |-> orders, revenue |-> revenue, margin |-> margin]
Performances == <<Performed(3000, 600, 40, 4000, 40), Performed(2500, 500, 20, 300, 30),
                  Performed(800, 900, 10, 1000, 60), Performed(900, 100, 1, 50, 10),
                  Performed(0, 0, 0, 0, 50)>>

\* Sales that grow, healthy ones that do so less, and one with nothing to compare with.
Growing == [growth |-> <<20>>, health |-> 60, orders |-> 10]
Markets == {Growing, [growth |-> <<14>>, health |-> 80, orders |-> 12],
            [growth |-> <<>>, health |-> 80, orders |-> 10]}
=============================================================================
