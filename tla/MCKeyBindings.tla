--------------------------- MODULE MCKeyBindings ----------------------------
(***************************************************************************)
(* Keyboards and configurations for KeyBindings: a super modifier, one for *)
(* num lock and one for scroll lock; "a" and "A" are the same key.         *)
(***************************************************************************)
EXTENDS KeyBindings

Spec1(keysym, modifiers) == [keysym |-> keysym, modifiers |-> modifiers]
Super(keysym) == Spec1(keysym, {"mod4"})
Plain(keysym) == Spec1(keysym, {})
AnyMod(keysym) == Spec1(keysym, AnyModifier)

\* mod4-k k, mod4-k any-u, mod4-x x, mod4-x mod4-x, mod4-u, k
Chords ==
  {<<Super("k"), Plain("k")>>, <<Super("k"), AnyMod("u")>>,
   <<Super("x"), Plain("x")>>, <<Super("x"), Super("x")>>,
   <<Super("u")>>, <<Plain("k")>>}

Keyboard(code, num, scroll, modifier_keycodes) ==
  [code |-> code, num |-> num, scroll |-> scroll, modifier_keycodes |-> modifier_keycodes]

Codes(k, x, u) == [k |-> k, x |-> x, u |-> u]

AllStates == SUBSET {"mod4", "mod2", "lock"}

OneKeyboard == {Keyboard(Codes(1, 2, 3), "mod2", None, {9})}

\* mod4-a and mod4-A, which are the same key with the same modifiers, mod4-b, b and
\* any-c.
Singles ==
  {<<Super("a")>>, <<Super("A")>>, <<Super("b")>>, <<Plain("b")>>, <<AnyMod("c")>>}

Letters(a, b, c) == [a |-> a, A |-> a, b |-> b, c |-> c]

\* Keys that trade places, that disappear or become modifiers, and locks that move.
ChangingKeyboards ==
  {Keyboard(Letters(1, 2, 3), "mod2", None, {9}),
   Keyboard(Letters(2, 1, 0), "mod3", None, {9}),
   Keyboard(Letters(3, 2, 1), None, "mod2", {3, 9})}

\* Scroll lock has a modifier, as num lock has.
ScrollKeyboard == {Keyboard(Letters(1, 2, 3), "mod2", "mod3", {9})}

TwoKeyboards ==
  {Keyboard(Codes(1, 2, 3), "mod2", None, {9}), Keyboard(Codes(2, 1, 3), "mod2", None, {9})}

Setup(configured, keyboards) == [configured |-> configured, keyboards |-> keyboards]

ChordsOrChanges == {Setup(Chords, OneKeyboard), Setup(Singles, ChangingKeyboards)}
ScrollLock == {Setup(Singles, ScrollKeyboard)}
ChordsAndChanges == {Setup(Chords, TwoKeyboards)}
=============================================================================
