------------------------------- MODULE ToolWork -------------------------------
(***************************************************************************)
(* A tool of the site that computes in the page (src/apps/web/src/features *)
(* /tools): it is given something, and keeps what it was given with what   *)
(* it returned.  The modules of the single tools extend this one.          *)
(***************************************************************************)
VARIABLE work  \* the tool, what it was given, and what it returned

NoWork == [tool |-> "none"]

WorkbenchInit == work = NoWork

\* The tool is opened anew.
ResetWork == work.tool # "none" /\ work' = NoWork

-----------------------------------------------------------------------------
(***************************************************************************)
(* JSON values, as records with their kind.  What a string or a key is     *)
(* made of, and what a number is counted in, is for the tool to say.       *)
(***************************************************************************)
NullValue    == [kind |-> "null"]
Bool(b)      == [kind |-> "boolean", is |-> b]
Num(n)       == [kind |-> "number", n |-> n]
Str(s)       == [kind |-> "string", text |-> s]
Arr(items)   == [kind |-> "array", items |-> items]
Obj(of)      == [kind |-> "object", of |-> of]
UndefinedValue == [kind |-> "undefined"]

IsObject(value) == value.kind = "object"
IsArray(value)  == value.kind = "array"
IsScalar(value) == ~IsObject(value) /\ ~IsArray(value)
=============================================================================
