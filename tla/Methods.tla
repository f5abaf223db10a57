------------------------------- MODULE Methods --------------------------------
(***************************************************************************)
(* How the clients of src/ speak of what the node keeps.  Nearly every     *)
(* method of a client is one request and returns what the node answers;    *)
(* what tells methods apart for a caller whose answers may be lost is      *)
(* whether the request makes an object, under whose name, which objects it *)
(* must name, whether it ends one, and whether it lists a kind.            *)
(***************************************************************************)

Method(op, names, needs, kind) == [op : {op}, rpc : names, needs : {needs}, kind : {kind}]

\* The node makes an object of this kind and names it in its answer.
Make(names, needs, kind) == Method("make", names, needs, kind)

\* The object is made under a name that is an argument of the call, or that
\* the node derives from the arguments alone.  Whether the same call makes it
\* once more is the node's affair: few docs promise either.
Named(names, needs, kind) == Method("named", names, needs, kind)

\* A read or a change, of the objects that the arguments name.
Use(names, needs) == Method("use", names, needs, "")

\* The object is over: closed, cancelled, removed or spent.
End(names, needs, kind) == Method("end", names, needs \cup {kind}, kind)

\* Objects of this kind are over that the call does not name.
EndSome(names, needs, kind) == Method("endSome", names, needs, kind)

\* Some of the caller's objects of this kind: most lists have a limit.
List(names, needs, kind) == Method("list", names, needs, kind)
=============================================================================
