------------------------------- MODULE Scopes -------------------------------
(***************************************************************************)
(* What TeX's groups promise, with no save stack, no levels and no         *)
(* reference counts: nested scopes, each binding some names and registers  *)
(* to what they mean there.  What holds is the innermost binding; ending a *)
(* group throws its scope away.  A macro call is read from the text the    *)
(* macro had when it was called.                                           *)
(***************************************************************************)
EXTENDS Integers, Sequences, SequencesExt

CONSTANTS
    GlobalDefs,   \* the location of \globaldefs
    Void          \* what a used box register holds

VARIABLES
    depth,    \* how many scopes are open, the outermost not counted
    bound,    \* the bindings: <<scope, location, what it means there>>
    after,    \* what a scope's end brings: <<scope, token>>, in order
    input     \* what is to be read, the next of it last

vars == <<depth, bound, after, input>>

\* What x means: the innermost of its bindings.
Of(b, x) == {c \in b : c[2] = x}
Innermost(b, x) == CHOOSE c \in Of(b, x) : \A d \in Of(b, x) : d[1] <= c[1]
Meaning(b, x) == Innermost(b, x)[3]

\* A local assignment binds in the scope it is made in; a global one is the
\* only binding from then on.  \globaldefs overrules the prefix.
Locally(b, x, v) == {c \in b : c[1] # depth \/ c[2] # x} \cup {<<depth, x, v>>}
Globally(b, x, v) == (b \ Of(b, x)) \cup {<<0, x, v>>}

Set(b, x, v) ==
    LET defs == Meaning(b, GlobalDefs)
    IN  (IF defs <= 0 THEN {Locally(b, x, v)} ELSE {})
        \cup (IF defs >= 0 THEN {Globally(b, x, v)} ELSE {})

\* A box that is used goes from the binding it was found in.
Use(b, x) == LET found == Innermost(b, x)
             IN  (b \ {found}) \cup {<<found[1], x, Void>>}

Opens == depth' = depth + 1 /\ bound' = bound
Open == Opens /\ UNCHANGED <<after, input>>

\* What was put by for a group's end is read next, in the order it came.
Brought == FlattenSeq([i \in DOMAIN after |->
              IF after[i][1] = depth THEN <<after[i][2]>> ELSE <<>>])
Closes ==
    /\ depth > 0
    /\ depth' = depth - 1
    /\ bound' = {c \in bound : c[1] # depth}
Close ==
    /\ Closes
    /\ after' = FlattenSeq([i \in DOMAIN after |->
                   IF after[i][1] # depth THEN <<after[i]>> ELSE <<>>])
    /\ input' = input \o Reverse(Brought)

PutBy(t) == /\ depth > 0
            /\ after' = Append(after, <<depth, t>>)
            /\ UNCHANGED <<depth, bound, input>>

Read == input # <<>> /\ input' = Front(input) /\ UNCHANGED <<depth, bound, after>>

Call(x) == /\ Meaning(bound, x) # "undefined"
           /\ input' = Append(input, Meaning(bound, x))
           /\ UNCHANGED <<depth, bound, after>>

\* The registers and the values they may have, the boxes, the names, the
\* tokens and the macro texts are whatever the document brings.
Assigned(b, values, boxes, names, texts) ==
    (UNION {Set(b, x, v) : x \in names, v \in texts \cup {Meaning(b, y) : y \in names}})
    \cup (UNION {UNION {Set(b, x, v) : v \in values[x]} : x \in DOMAIN values})
    \cup {Use(b, x) : x \in boxes}

Assigns(values, boxes, names, texts) ==
    /\ depth' = depth
    /\ bound' \in Assigned(bound, values, boxes, names, texts)

\* What happens to the bindings, whatever is read meanwhile.
Binds(values, boxes, names, texts) ==
    Opens \/ Closes \/ Assigns(values, boxes, names, texts)

Next(values, boxes, names, tokens, texts) ==
    \/ Open \/ Close \/ Read
    \/ \E t \in tokens : PutBy(t)
    \/ \E x \in names : Call(x)
    \/ Assigns(values, boxes, names, texts) /\ UNCHANGED <<after, input>>
=============================================================================
