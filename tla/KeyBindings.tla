---------------------------- MODULE KeyBindings -----------------------------
(***************************************************************************)
(* Key bindings (key.cpp): the tree of WKeyMaps of the global binding      *)
(* context, the map from keycodes kept beside each of its keysym maps, the *)
(* keys grabbed for it on the root window, the key sequence that is being  *)
(* typed, and what happens to all that when the keyboard mapping changes.  *)
(*                                                                         *)
(* A WKeyMap is named by the sequence of keys that leads to it, <<>> for   *)
(* the top one, and a binding by the sequence up to its own key.  The      *)
(* build modelled is the default one, Release, where the assertion of      *)
(* for_each_mod_combo is compiled out.  The context of the menu differs in *)
(* grabbing no keys.                                                       *)
(***************************************************************************)
EXTENDS Naturals, Sequences, FiniteSets, SequencesExt

CONSTANTS
  Modifiers,   \* the modifiers of the X server but the one of caps lock
  Lock,        \* LockMask, that of caps lock
  AnyModifier, \* the mask that stands for all of them
  Setups,      \* what a user may have: [configured: key sequences that may be bound,
               \* keyboards: mappings, with keycodes of keysyms and modifiers of the locks]
  States,      \* sets of modifiers that may be on when a key is pressed
  None         \* no modifier, no binding

ASSUME NoModifierOmitted == Lock \notin Modifiers /\ AnyModifier \notin Modifiers \cup {Lock, None}

VARIABLES
  setup,     \* which of Setups the user has
  kmap,      \* tree, keycode maps and passive grabs
  keyboard,  \* the mapping Xlib holds
  locking,   \* mod_info.locking_modifiers
  current,   \* current_kmap, <<>> for NULL
  phase,     \* whether main is still binding keys
  typed,     \* history: the keys of the pending sequence
  ran        \* history: the binding whose action the last event ran

vars == <<setup, kmap, keyboard, locking, current, phase, typed, ran>>

AllModifiers == Modifiers \cup {Lock}
NoKeycode == 0

Keyboards == UNION {user.keyboards : user \in Setups}
Keycodes == UNION {{kb.code[k] : k \in DOMAIN kb.code} : kb \in Keyboards} \ {NoKeycode}

(***************************************************************************)
(* Modifiers.                                                              *)
(***************************************************************************)
LockingModifiers(kb) == <<kb.num, kb.scroll, Lock>>

LockingMask(locks) == ToSet(locks) \ {None}

\* The modifiers of a binding without the locking ones.
Clean(locks, modifiers) ==
  IF modifiers = AnyModifier THEN AnyModifier ELSE modifiers \ LockingMask(locks)

\* The masks for_each_mod_combo comes to from its i-th locking modifier on: the
\* mask of the second loop keeps what the third added to it.
FromLock(locks, modifiers, i) == {modifiers \cup {locks[k] : k \in i..j} : j \in i..3}

\* Grabbing a key with AnyModifier grabs it with every set of modifiers.
Combos(locks, modifiers) ==
  IF modifiers = AnyModifier THEN SUBSET AllModifiers
  ELSE {m \ {None} : m \in {modifiers} \cup
          UNION {FromLock(locks, modifiers, i) : i \in {j \in 1..3 : locks[j] # None}}}

Grabs(locks, keycode, modifiers) == {keycode} \X Combos(locks, modifiers)

(***************************************************************************)
(* Keymaps.  The keycode map is ordered by what its entries point to; an   *)
(* entry whose binding changed keycode in place stands where it stood, and *)
(* a search of its map may then miss what is there.                        *)
(***************************************************************************)
EmptyKmap == [tree |-> << >>, codes |-> {}, moved |-> {}, grabs |-> {}]

Key(km, path) == <<km.tree[path].keycode, km.tree[path].clean_modifiers>>

Entries(km, map) == {path \in km.codes : Front(path) = map}

\* What searching the keycode map of a WKeyMap may find.
Found(km, map, key) ==
  LET hits == {path \in Entries(km, map) : Key(km, path) = key}
  IN IF hits = {} \/ map \in km.moved THEN hits \cup {<<>>} ELSE hits

\* The bindings with an action, which keymap_to_binding_list lists.
Leaves(km) == {path \in DOMAIN km.tree : ~ km.tree[path].submap}

NonEmpty(km, map) == \E path \in DOMAIN km.tree : Front(path) = map

(***************************************************************************)
(* Binding: one key of the sequence after the other.  From the first that  *)
(* has no keycode, or the keycode of another binding, on, the keys are not *)
(* entered in the keycode maps.                                            *)
(***************************************************************************)
Enter(acc, path, key, locks) ==
  [acc EXCEPT
     !.km.tree[path].keycode = key[1],
     !.km.tree[path].clean_modifiers = key[2],
     !.km.moved = IF path \in acc.km.codes THEN @ \cup {Front(path)} ELSE @,
     !.km.codes = @ \cup {path},
     !.km.grabs = IF Len(path) = 1 THEN @ \cup Grabs(locks, key[1], key[2]) ELSE @]

\* Mutant: every new binding gets a submap.
InsertWithSubmap(km, path, keycode, submap) ==
  IF path \in DOMAIN km.tree THEN km
  ELSE [km EXCEPT !.tree = @ @@ (path :> [keycode |-> keycode, clean_modifiers |-> None,
                                          submap |-> TRUE])]

Insert(km, path, keycode, submap) ==
  IF path \in DOMAIN km.tree THEN km
  ELSE [km EXCEPT !.tree = @ @@ (path :> [keycode |-> keycode, clean_modifiers |-> None,
                                          submap |-> submap])]

BindKey(acc, seq, i, kb, locks) ==
  LET path == SubSeq(seq, 1, i)
      is_last == i = Len(seq)
      key == <<kb.code[seq[i].keysym], Clean(locks, seq[i].modifiers)>>
      acc2 == [acc EXCEPT !.km = Insert(@, path, key[1], ~ is_last)]
  IN IF \/ acc.refused
        \/ path \in DOMAIN acc.km.tree /\ (is_last \/ ~ acc.km.tree[path].submap)
     THEN {[acc EXCEPT !.refused = TRUE]}
     ELSE IF ~ acc.keycode_mapping_exists THEN {acc2}
     ELSE {CASE hit = <<>> -> Enter(acc2, path, key, locks)
             [] hit = path -> acc2
             [] OTHER -> [acc2 EXCEPT !.keycode_mapping_exists = FALSE] :
             hit \in Found(acc2.km, Front(path), key)}

Bind(km, seq, kb, locks) ==
  LET exists == \A i \in DOMAIN seq : kb.code[seq[i].keysym] # NoKeycode
  IN {acc.km : acc \in FoldLeftDomain(
        LAMBDA accs, i : UNION {BindKey(acc, seq, i, kb, locks) : acc \in accs},
        {[km |-> km, refused |-> FALSE, keycode_mapping_exists |-> exists]}, seq)}

(***************************************************************************)
(* Unbinding.  Every key of the sequence is looked up in the top keymap.   *)
(* The clean_modifiers of a binding that was never entered in the keycode  *)
(* map are not initialized, and the entry found for it may be any with its *)
(* keycode.                                                                *)
(***************************************************************************)
EntryFor(km, path) ==
  IF km.tree[path].keycode = NoKeycode THEN {<<>>}
  ELSE IF km.tree[path].clean_modifiers = None
  THEN {<<>>} \cup {other \in Entries(km, <<>>) : km.tree[other].keycode = km.tree[path].keycode}
  ELSE Found(km, <<>>, Key(km, path))

Erase(km, path, locks) ==
  LET erased == [km EXCEPT !.tree = [p \in DOMAIN @ \ {path} |-> @[p]]]
  IN {IF hit = <<>> THEN erased
      ELSE [erased EXCEPT !.codes = @ \ {hit},
              !.grabs = @ \ Grabs(locks, km.tree[path].keycode, path[1].modifiers)] :
        hit \in EntryFor(km, path)}

Unbind(km, seq, locks) ==
  LET top(i) == <<seq[i]>>
      stops == {i \in DOMAIN seq : km.tree[top(i)].submap /\ NonEmpty(km, top(i))}
      erased == {i \in DOMAIN seq : \A j \in stops : j < i}
  IN IF \/ \E i \in DOMAIN seq : top(i) \notin DOMAIN km.tree
        \/ km.tree[top(Len(seq))].submap
     THEN {km}
     ELSE FoldLeftDomain(
            LAMBDA kms, i : UNION {IF i \in erased THEN Erase(k, top(i), locks) ELSE {k} :
                                     k \in kms},
            {km}, seq)

UnbindAll(km, list, locks) ==
  FoldLeft(LAMBDA kms, seq : UNION {Unbind(k, seq, locks) : k \in kms}, {km}, list)

BindAll(km, list, kb, locks) ==
  FoldLeft(LAMBDA kms, seq : UNION {Bind(k, seq, kb, locks) : k \in kms}, {km}, list)

(***************************************************************************)
(* Events.                                                                 *)
(***************************************************************************)
Init ==
  /\ setup \in Setups
  /\ kmap = EmptyKmap
  /\ keyboard \in setup.keyboards
  /\ locking = LockingModifiers(keyboard)
  /\ current = <<>>
  /\ phase = "startup"
  /\ typed = <<>>
  /\ ran = <<>>

\* main binds the keys of the configuration, in its order, before any event.
Configure(seq) ==
  /\ phase = "startup"
  /\ kmap' \in Bind(kmap, seq, keyboard, locking)
  /\ UNCHANGED <<keyboard, locking, current, phase, typed, ran>>

Start ==
  /\ phase = "startup"
  /\ phase' = "running"
  /\ UNCHANGED <<kmap, keyboard, locking, current, typed, ran>>

\* Mutant: a key that does not continue the sequence is taken as the first of another.
LookupAnywhere(keycode, state) ==
  LET exact == Found(kmap, current, <<keycode, Clean(locking, state)>>)
  IN (exact \ {<<>>}) \cup
     (IF <<>> \in exact THEN Found(kmap, <<>>, <<keycode, Clean(locking, state)>>) ELSE {})

\* What a WKeyMap has for a key, the binding with AnyModifier after all others.
Lookup(keycode, state) ==
  LET exact == Found(kmap, current, <<keycode, Clean(locking, state)>>)
  IN (exact \ {<<>>}) \cup
     (IF <<>> \in exact THEN Found(kmap, current, <<keycode, AnyModifier>>) ELSE {})

ResetCurrentKeySequence == current' = <<>> /\ typed' = <<>>

\* A key pressed while the keyboard or that key is grabbed; keys that are modifiers
\* are let pass.
KeyPress(keycode, state) ==
  /\ phase = "running"
  /\ keycode \notin keyboard.modifier_keycodes
  /\ \E hit \in Lookup(keycode, state) :
       \/ /\ hit = <<>>
          /\ ResetCurrentKeySequence
          /\ ran' = <<>>
       \/ /\ hit # <<>> /\ kmap.tree[hit].submap
          /\ current' = hit
          /\ typed' = Append(typed, <<keycode, state>>)
          /\ ran' = <<>>
       \/ /\ hit # <<>> /\ ~ kmap.tree[hit].submap
          /\ ResetCurrentKeySequence
          /\ ran' = hit
  /\ UNCHANGED <<kmap, keyboard, locking, phase>>

\* kmap_reset_event, armed while a sequence is pending.
KeySequenceTimeout ==
  /\ phase = "running" /\ current # <<>>
  /\ ResetCurrentKeySequence
  /\ ran' = <<>>
  /\ UNCHANGED <<kmap, keyboard, locking, phase>>

\* Mutant: the bindings are removed with the locks they will have.
HandleMappingNotifyUpdatingFirst(kb) ==
  /\ phase = "running"
  /\ keyboard' = kb
  /\ locking' = LockingModifiers(kb)
  /\ \E list \in SetToSeqs(Leaves(kmap)) :
       \E unbound \in UnbindAll(kmap, list, locking') :
         kmap' \in BindAll(unbound, list, kb, locking')
  /\ ran' = <<>>
  /\ UNCHANGED <<current, phase, typed>>

\* Mutant: the bindings are made again with the locks they had.
HandleMappingNotifyUpdatingLast(kb) ==
  /\ phase = "running"
  /\ keyboard' = kb
  /\ locking' = LockingModifiers(kb)
  /\ \E list \in SetToSeqs(Leaves(kmap)) :
       \E unbound \in UnbindAll(kmap, list, locking) :
         kmap' \in BindAll(unbound, list, kb, locking)
  /\ ran' = <<>>
  /\ UNCHANGED <<current, phase, typed>>

\* Mutant: Xlib goes on using the mapping it had.
HandleMappingNotifyWithoutRefresh(kb) ==
  /\ phase = "running"
  /\ keyboard' = kb
  /\ locking' = LockingModifiers(kb)
  /\ \E list \in SetToSeqs(Leaves(kmap)) :
       \E unbound \in UnbindAll(kmap, list, locking) :
         kmap' \in BindAll(unbound, list, keyboard, locking')
  /\ ran' = <<>>
  /\ UNCHANGED <<current, phase, typed>>

\* The order of the list is that of the keysyms, whose numbers mean nothing here.
HandleMappingNotify(kb) ==
  /\ phase = "running"
  /\ keyboard' = kb
  /\ locking' = LockingModifiers(kb)
  /\ \E list \in SetToSeqs(Leaves(kmap)) :
       \E unbound \in UnbindAll(kmap, list, locking) :
         kmap' \in BindAll(unbound, list, kb, locking')
  /\ ran' = <<>>
  /\ UNCHANGED <<current, phase, typed>>

\* What the program does once an entry points to a binding that is gone is
\* not modelled.
Next ==
  /\ UNCHANGED setup
  /\ kmap.codes \subseteq DOMAIN kmap.tree
  /\ \/ \E seq \in setup.configured : Configure(seq)
     \/ Start
     \/ \E keycode \in Keycodes, state \in States : KeyPress(keycode, state)
     \/ KeySequenceTimeout
     \/ \E kb \in setup.keyboards : HandleMappingNotify(kb)

Spec == Init /\ [][Next]_vars

(***************************************************************************)
(* Properties.                                                             *)
(***************************************************************************)
Mapped(seq) == \A i \in DOMAIN seq : keyboard.code[seq[i].keysym] # NoKeycode

KeyOf(spec) == <<keyboard.code[spec.keysym], Clean(locking, spec.modifiers)>>

Rivals(path) ==
  {other \in DOMAIN kmap.tree \ {path} :
     Front(other) = Front(path) /\ KeyOf(Last(other)) = KeyOf(Last(path))}

\* The keys of seq, as they stand on the keyboard, were pressed one after the other.
Answers(seq, keys) ==
  /\ Len(keys) = Len(seq)
  /\ \A i \in DOMAIN seq :
       /\ keyboard.code[seq[i].keysym] = keys[i][1]
       /\ seq[i].modifiers # AnyModifier =>
            Clean(locking, seq[i].modifiers) = Clean(locking, keys[i][2])

\* Types; and the tree of keymaps is one: a binding with a submap has
\* bindings in it, the others have none, and keycode maps list existing ones.
KeysTypeOK ==
  /\ keyboard \in setup.keyboards
  /\ locking \in Seq(AllModifiers \cup {None}) /\ Len(locking) = 3
  /\ phase \in {"startup", "running"}
  /\ kmap.grabs \subseteq Keycodes \X SUBSET AllModifiers
  /\ current \in {<<>>} \cup (DOMAIN kmap.tree \ Leaves(kmap))
  /\ kmap.codes \subseteq DOMAIN kmap.tree
  /\ \A path \in DOMAIN kmap.tree :
       /\ Len(path) > 1 => Front(path) \in DOMAIN kmap.tree
       /\ kmap.tree[path].submap <=> NonEmpty(kmap, path)

\* Every sequence of keys that was bound, and of which no key has been given the
\* keycode of another, leads to its binding: through the keycode maps and, for
\* the first key, a grab.  handle_mapping_notify: "Remap all bindings".
EveryBindingAnswers ==
  \A seq \in Leaves(kmap) :
    LET paths == {SubSeq(seq, 1, i) : i \in DOMAIN seq}
    IN Mapped(seq) /\ (\A path \in paths : Rivals(path) = {}) =>
         /\ \A path \in paths : Found(kmap, Front(path), KeyOf(Last(path))) = {path}
         /\ KeyOf(seq[1])[2] # AnyModifier => KeyOf(seq[1]) \in kmap.grabs

\* The keys taken from all other programs are those of the keycode map: "This is
\* a map of the actual bindings that have been grabbed".
GrabsAreBindings ==
  kmap.grabs = UNION {Grabs(locking, kmap.tree[path].keycode, kmap.tree[path].clean_modifiers) :
                        path \in Entries(kmap, <<>>)}

\* A key bound at the top is grabbed whichever locks are on: "This automatically
\* creates a grab that does not depend on the state of locking modifiers."
GrabIgnoresLocks ==
  \A path \in Entries(kmap, <<>>), locks \in SUBSET LockingMask(locking) :
    kmap.tree[path].clean_modifiers # AnyModifier =>
      <<kmap.tree[path].keycode, kmap.tree[path].clean_modifiers \cup locks>> \in kmap.grabs

\* A key press runs an action only when the keys pressed since the sequence began
\* are those of its binding, wherever the mapping put them meanwhile; a timeout or
\* a wrong key in between starts the sequence anew.
ActionsAreTyped ==
  [][\A keycode \in Keycodes, state \in States :
       KeyPress(keycode, state) /\ ran' # <<>>
         => Answers(ran', Append(typed, <<keycode, state>>))]_vars
=============================================================================
