---------------------------- MODULE MCContainer ----------------------------
EXTENDS Container, TLC

CONSTANTS sa, sb, sc,       \* bindings
          ka, kb, kc, ia, kz \* their keys, an interface, a key without binding

\* A wiring of singletons without an interface, asked for ka and kb.
Plain(args, fields, mode) ==
    [roots  |-> {ka, kb}, shared |-> {sa, sb, sc},
     direct |-> ka :> sa @@ kb :> sb @@ kc :> sc @@ ia :> None @@ kz :> None,
     offers |-> [k \in Keys |-> {}],
     args   |-> args @@ [x \in Bindings |-> <<>>],
     fields |-> fields @@ [x \in Bindings |-> <<>>],
     mode   |-> mode]

\* sa needs sb, and both need sc.
Diamond == Plain(sa :> <<kb>>, sa :> <<kc>> @@ sb :> <<kc>>, "error")
\* The fields of sa and sb refer to each other.
Circle(mode) == Plain(<<>>, sa :> <<kb>> @@ sb :> <<ka>>, mode)
\* The same through an interface that sa implements: nobody sees the circle.
Hidden == [Plain(<<>>, sa :> <<kb>> @@ sb :> <<ia>>, "error")
            EXCEPT !.roots = {ka, ia}, !.offers[ia] = {sa}]
\* An interface with two implementations, sb of them transient.
Choice == [Plain(sc :> <<ia>>, sb :> <<ka>>, "error")
            EXCEPT !.roots = {kc, ka}, !.shared = {sa, sc}, !.offers[ia] = {sa, sb}]
\* A dependency nobody bound.
Missing == Plain(<<>>, sa :> <<kb, kz>>, "skip")
\* The resolvers of sa and sb need each other.
Knot == Plain(sa :> <<kb>> @@ sb :> <<ka>>, <<>>, "skip")

AllWirings == {Diamond, Circle("error"), Circle("skip"), Hidden, Choice, Missing, Knot}
=============================================================================
