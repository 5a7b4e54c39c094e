---------------------------- MODULE MCSendMessages ---------------------------
(***************************************************************************)
(* SendMessages with groups that hold empty messages and messages of       *)
(* several chunks, so that the iovs grow, the cache runs dry within and    *)
(* between messages, and the limit of writev() parts a header from its     *)
(* payload.                                                                *)
(***************************************************************************)
EXTENDS SendMessages

M(size) == [size |-> size, extended |-> FALSE]
X(size) == [size |-> size, extended |-> TRUE]

MCGroups == {<<M(1)>>, <<M(0), X(3)>>, <<M(7), X(2), M(0)>>, <<X(9)>>, <<M(2), X(2), M(6)>>}
==============================================================================
