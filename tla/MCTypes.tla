------------------------------ MODULE MCTypes -------------------------------
(* Types of a program. *)
EXTENDS Types

Pair == Derived(<<Plain(8), Box>>)              \* a struct like Vec<T>
Leading == Derived(<<Pair, Plain(8)>>)          \* a struct with a Pair at its start
Nested == Derived(<<Plain(8), Pair>>)           \* a struct with a Pair further on

Ordinary == {Pair, ToArray(Pair), ToArray(Plain(4)), Leading}
WithNested == {Pair, Nested}
AtRuntime == {Pair}

\* The theorems about iterators are about Ordinary, and not about WithNested.
ASSUME OrdinaryUpright == Upright(Descriptors) <=> Nested \notin StaticTypes
=============================================================================
