--------------------------------- MODULE Tree ---------------------------------
(* The nodes of a request, as payload.py meets them: a string, a JSON       *)
(* document inside a string, a list, a dict with its "type".                *)

Str(parts) == [node |-> "str", of |-> parts]
Json(tree) == [node |-> "json", of |-> tree]
List(nodes) == [node |-> "list", of |-> nodes]
Dict(type, entries) == [node |-> "dict", type |-> type, of |-> entries]
=============================================================================
