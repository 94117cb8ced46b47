----------------------------- MODULE Templates -----------------------------
(***************************************************************************)
(* Templates: ${...} references resolved against a scope                   *)
(* (resolve_template and _lookup of sdk-python/orchestrator/spec.py, and   *)
(* engine/internal/spec/template.go, which do the same).                   *)
(*                                                                         *)
(* A value is a leaf or an object.  A template is a literal, exactly one   *)
(* reference, or text with references in it; a reference is the sequence   *)
(* of names between its dots.                                              *)
(***************************************************************************)
EXTENDS Integers, Sequences

Leaf(v) == [kind |-> "leaf", v |-> v]
Object(f) == [kind |-> "object", at |-> f]

\* The text made of values: a string is itself, anything else its JSON.
TextOf(values) == [kind |-> "text", v |-> values]

NullValue == Leaf("null")
Missing == [kind |-> "missing"]

Literal(v) == [form |-> "literal", v |-> v, paths |-> <<>>]
Exactly(path) == [form |-> "exact", v |-> NullValue, paths |-> <<path>>]
Inline(paths) == [form |-> "inline", v |-> NullValue, paths |-> paths]

\* A reference has at least one name.
IsTemplate(t, values) ==
    /\ \/ t = Literal(t.v) /\ t.v \in values
       \/ t = Exactly(t.paths[1])
       \/ t = Inline(t.paths)
    /\ \A i \in DOMAIN t.paths : Len(t.paths[i]) \in Nat \ {0}

-----------------------------------------------------------------------------
\* Slip: a name that is not there is passed over.
FieldOrSame(node, name) ==
    IF node.kind = "object" /\ name \in DOMAIN node.at THEN node.at[name] ELSE node

\* One step of a path: only an object has fields.
Field(node, name) ==
    IF node.kind = "object" /\ name \in DOMAIN node.at THEN node.at[name] ELSE Missing

Lookup(path, scope) ==
    LET node[n \in 0..Len(path)] ==
            IF n = 0 THEN scope ELSE Field(node[n - 1], path[n])
    IN  node[Len(path)]

\* Missing stands for the SpecError of an unresolved reference.
Resolve(template, scope) ==
    LET values == [i \in DOMAIN template.paths |-> Lookup(template.paths[i], scope)]
    IN  IF \E i \in DOMAIN values : values[i] = Missing THEN Missing
        ELSE IF template.form = "literal" THEN template.v
        ELSE IF template.form = "exact" THEN values[1]
        ELSE TextOf(values)

\* The scope of a task and of the output of a run: the inputs, and the outputs of
\* the tasks that have finished.  The outputs come last and win.
Scope(inputs, outputs) ==
    Object([name \in DOMAIN outputs \cup {"input"} |->
                IF name \in DOMAIN outputs
                THEN Object([field \in {"output"} |-> outputs[name]])
                ELSE inputs])
=============================================================================
