------------------------------ MODULE MCPanel ------------------------------
(* Two rows of keys: one with the keys that move, one with those that type. *)
EXTENDS Panel

MCRows == <<{"enter", "down", "up"}, {"left", "exit", "2", "9"}>>

Visit(m, n, ks, p, c) == [menu |-> m, vars |-> n, keys |-> ks, presses |-> p, changes |-> c]
MCVisits ==
  {Visit("sys_cfg", 1, {"enter", "2"}, 5, 0),         \* a third digit begins a new value
   Visit("sys_cfg", 1, {"enter", "9", "2"}, 4, 0),
   Visit("sys_cfg", 1, {"enter", "exit", "2"}, 4, 0),
   Visit("sys_cfg", 3, {"enter", "down", "up"}, 4, 0),  \* the list moves under the cursor
   Visit("sys_cfg", 1, {"enter", "down"}, 3, 0),      \* the cursor below the last variable
   Visit("sys_cfg", 0, {"enter", "down"}, 2, 0),
   Visit("other", 1, {"enter", "left"}, 4, 0),
   Visit("sys_cfg", 1, {"enter"}, 2, 1),
   Visit("other", 1, {"enter"}, 1, 4)}
=============================================================================
