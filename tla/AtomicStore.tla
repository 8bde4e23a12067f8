----------------------------- MODULE AtomicStore -----------------------------
(* What the pager promises to the layers above it: a store that holds one     *)
(* image of the database and changes it only as a whole.  A connection has a  *)
(* view of the image while it is in a transaction; one connection at a time   *)
(* may change its view, and a commit makes that view the image when nobody    *)
(* else is looking.  The loss of power may take back the last commit (the     *)
(* deletion of its journal need not have reached the disk) and nothing more.  *)

CONSTANTS Conn, NoView

VARIABLES
  image,  \* the committed image
  prior,  \* the image a power loss may return to: image, or the one before it
  view,   \* Conn -> the image the connection works on, or NoView
  writer  \* the connections whose view may differ from image (at most one)

vars == <<image, prior, view, writer>>

Init == /\ prior = image
        /\ view = [c \in Conn |-> NoView]
        /\ writer = {}

Begin(c) == /\ view[c] = NoView
            /\ view' = [view EXCEPT ![c] = image]
            /\ UNCHANGED <<image, prior, writer>>

BeginWrite(c) == /\ view[c] = image /\ writer = {}
                 /\ writer' = {c}
                 /\ UNCHANGED <<image, prior, view>>

Change(c) == /\ writer = {c} /\ view[c] # NoView
             /\ view'[c] # NoView
             /\ view' = [view EXCEPT ![c] = view'[c]]
             /\ UNCHANGED <<image, prior, writer>>

Commit(c) == /\ writer = {c} /\ view[c] # NoView
             /\ \A d \in Conn \ {c} : view[d] = NoView
             /\ image' = view[c]
             /\ prior' = image
             /\ writer' = {}
             /\ UNCHANGED view

\* A transaction that changed nothing ends without a commit.
Cancel(c) == /\ writer = {c} /\ view[c] = image
             /\ writer' = {}
             /\ UNCHANGED <<image, prior, view>>

\* The end of a read transaction, a rollback, or the death of the connection.
End(c) == /\ view[c] # NoView \/ c \in writer
          /\ view' = [view EXCEPT ![c] = NoView]
          /\ writer' \in {writer, writer \ {c}}
          /\ UNCHANGED <<image, prior>>

\* What was committed reaches the disk for good.
Settle == /\ prior # image
          /\ prior' = image
          /\ UNCHANGED <<image, view, writer>>

PowerLoss == /\ \A c \in Conn : view'[c] = NoView
             /\ writer' = {}
             /\ image' = image \/ image' = prior
             /\ prior' = image'

Next == \/ PowerLoss
        \/ \E c \in Conn : \/ Begin(c) \/ BeginWrite(c) \/ Change(c)
                           \/ Commit(c) \/ Cancel(c) \/ End(c)
        \/ Settle

Spec == Init /\ [][Next]_vars
==============================================================================
