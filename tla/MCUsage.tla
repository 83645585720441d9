------------------------------ MODULE MCUsage ------------------------------
(* Ranges that divide by their window and that do not, that lie behind, across
   and ahead of the present, and one that is refused. *)
EXTENDS Usage
MCSizeOf == <<1, 2>>
MCQueries == {[from |-> 1, to |-> 4, window |-> 2], [from |-> 1, to |-> 9, window |-> 1],
              [from |-> 3, to |-> 3, window |-> 1]}
=============================================================================
