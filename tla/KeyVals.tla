------------------------------ MODULE KeyVals ------------------------------
(***************************************************************************)
(* Key-value handling: how nj.c takes a text of key::value elements apart, *)
(* compares a request with what the NP was registered with, and makes the  *)
(* string it hands to the NP's library.                                    *)
(*                                                                         *)
(* A text is a sequence of elements, what "##" separates.  An element has  *)
(* a key and a value, which may be empty; a bare element has no "::" and   *)
(* its value is NoVal here.  Values hold no "::" and no "#".  Every text   *)
(* begins with the name of the NP: register_np refuses others.             *)
(*                                                                         *)
(* Every thread takes texts apart with strtok, whose position is a static  *)
(* variable of the C library: save is that position.  A thread that is     *)
(* inside extract_key_val may therefore continue in the text of another    *)
(* one.  The thread Np is register_np's; once it is done requests are      *)
(* compared with its array.                                                *)
(***************************************************************************)
EXTENDS Naturals, Sequences, FiniteSets, SequencesExt   \* SelectInSeq, Min

CONSTANTS Np,        \* the thread of register_np
          Requests,  \* the threads of requests
          Keys,
          npname,    \* the first key of every text
          Vals,
          NoVal,     \* the value of an element without "::"
          FAULT,     \* what a lookup that follows a NULL pointer finds
          Texts,     \* the texts each thread may be given
          EndsWith   \* <<k, l>>: the name of key k ends with that of l

Threads == Requests \cup {Np}

Junk == [key |-> "junk", val |-> NoVal]   \* what is left of another text

Elements == [key : Keys, val : Vals \cup {NoVal}]

ASSUME KeyValsAssumption ==
    /\ Np \notin Requests
    /\ NoVal \notin Vals /\ FAULT \notin Vals \cup {NoVal}
    /\ "junk" \notin Keys
    /\ EndsWith \subseteq Keys \X Keys
    /\ \A t \in Threads : \A x \in Texts[t] :
          /\ x \in Seq(Elements)
          /\ x # <<>> /\ x[1].key = npname /\ x[1].val # NoVal

NotYet == [key |-> "none", val |-> NoVal, copy |-> FALSE]

VARIABLES text,         \* the text of each thread
          pc,           \* where each thread is
          save,         \* the position of strtok: in whose text, and what is left of it
          tokens,       \* the elements each thread has taken so far: keyVal, pointer
          key_val_arr,  \* the array of the NP; empty when it is not registered
          argssend,     \* the string for the library
          found,        \* what each request looked up last
          alone         \* history: no other thread called strtok while this one took
                        \* its text apart

vars == <<text, pc, save, tokens, key_val_arr, argssend, found, alone>>

Init == /\ text \in {f \in [Threads -> UNION {Texts[t] : t \in Threads}] :
                        \A t \in Threads : f[t] \in Texts[t]}
        /\ pc = [t \in Threads |-> "names"]
        /\ save = [of |-> Np, rest |-> <<>>]
        /\ tokens = [t \in Threads |-> <<>>]
        /\ key_val_arr = <<>>
        /\ argssend = [r \in Requests |-> [pairs |-> <<>>, hash |-> FALSE]]
        /\ found = [r \in Requests |-> NotYet]
        /\ alone = [t \in Threads |-> TRUE]

-----------------------------------------------------------------------------
KeysOf(arr) == {arr[i].key : i \in DOMAIN arr}

\* count_args: the elements that have a "::".
Count(x) == Cardinality({i \in DOMAIN x : x[i].val # NoVal})

Goto(t, place) == pc' = [pc EXCEPT ![t] = place]

\* A thread calls strtok, and moves the position others may be using.
Disturb(t) == alone' = [u \in Threads |-> alone[u] /\ (u = t \/ pc[u] # "next")]

\* extract_key and extract_val call strtok on an array of their own: the position
\* stays in it when they return.
KeyExtracted(t) == save' = [of |-> t, rest |-> <<Junk>>] /\ Disturb(t)

\* What is left at the position of strtok.  Once the function whose array it points
\* into has returned, that may be anything.
Left == IF pc[save.of] = "next" THEN {save.rest} ELSE {save.rest, <<>>, <<Junk>>}

-----------------------------------------------------------------------------
\* register_np and np_getnotify_method first take the names out of copies of the
\* text, with strtok as well.  Which names they get is not modelled.
Names(t) ==
    /\ pc[t] = "names"
    /\ KeyExtracted(t)
    /\ Goto(t, "first")
    /\ UNCHANGED <<text, tokens, key_val_arr, argssend, found>>

\* extract_key_val: count_args and the first call of strtok.
FirstToken(t) ==
    /\ pc[t] = "first"
    /\ tokens' = [tokens EXCEPT ![t] = <<Head(text[t])>>]
    /\ save' = [of |-> t, rest |-> Tail(text[t])]
    /\ Goto(t, "next")
    /\ Disturb(t)
    /\ UNCHANGED <<text, key_val_arr, argssend, found>>

\* Faulty variant: elements are taken until there are no more.
NextTokenUncounted(t) ==
    /\ pc[t] = "next"
    /\ \E rest \in Left \ {<<>>} :
          /\ tokens' = [tokens EXCEPT ![t] = Append(@, Head(rest))]
          /\ save' = [save EXCEPT !.rest = Tail(rest)]
    /\ Disturb(t)
    /\ UNCHANGED <<text, pc, key_val_arr, argssend, found>>

\* strtok(NULL, "##"), as long as fewer elements were taken than there are "::".
NextToken(t) ==
    /\ pc[t] = "next"
    /\ Len(tokens[t]) < Count(text[t])
    /\ \E rest \in Left \ {<<>>} :
          /\ tokens' = [tokens EXCEPT ![t] = Append(@, Head(rest))]
          /\ save' = [save EXCEPT !.rest = Tail(rest)]
    /\ Disturb(t)
    /\ UNCHANGED <<text, pc, key_val_arr, argssend, found>>

\* extract_key_val returns: it has them all, or strtok returned NULL.  register_np
\* puts the array into the hash.
Extracted(t) ==
    /\ pc[t] = "next"
    /\ Len(tokens[t]) >= Count(text[t]) \/ <<>> \in Left
    /\ \/ t = Np /\ key_val_arr' = tokens[t] /\ Goto(t, "done")
       \/ t # Np /\ UNCHANGED key_val_arr /\ Goto(t, "compare")
    /\ UNCHANGED <<text, save, tokens, argssend, found, alone>>

\* Faulty variant: the arrays are compared place by place.
AcceptsByPlace(two, one) ==
    \A i \in DOMAIN one : i \in DOMAIN two /\ one[i].key = two[i].key

\* compare_array
Accepts(two, one) == KeysOf(one) \subseteq KeysOf(two)

\* np_getnotify_method finds the NP and compares.
Compare(r) ==
    /\ pc[r] = "compare"
    /\ \/ /\ key_val_arr = <<>>
          /\ Goto(r, "unknown")
          /\ UNCHANGED <<save, alone>>
       \/ /\ key_val_arr # <<>>
          /\ Goto(r, IF Accepts(key_val_arr, tokens[r]) THEN "convert" ELSE "refused")
          /\ KeyExtracted(r)
    /\ UNCHANGED <<text, tokens, key_val_arr, argssend, found>>

\* Faulty variant: the last "##" is cut off altogether.
ForwardConvertTrims(two, one) ==
    [pairs |-> [j \in DOMAIN two |->
                  LET i == SelectInSeq(one, LAMBDA e : e.key = two[j].key)
                  IN  IF i = 0 THEN two[j] ELSE one[i]],
     hash  |-> FALSE]

\* Faulty variant: what the NP does not know first, then its defaults.
ForwardConvertAppends(two, one) ==
    [pairs |-> one \o SelectSeq(two, LAMBDA e : e.key \notin KeysOf(one)),
     hash  |-> TRUE]

\* forward_convert: for each key of the NP what the request says of it first, else
\* the NP's default.  The NUL that ends the string is put over the first '#' of the
\* last "##": a '#' stays behind the end of the string.
ForwardConvert(two, one) ==
    [pairs |-> [j \in DOMAIN two |->
                  LET i == SelectInSeq(one, LAMBDA e : e.key = two[j].key)
                  IN  IF i = 0 THEN two[j] ELSE one[i]],
     hash  |-> TRUE]

Convert(r) ==
    /\ pc[r] = "convert"
    /\ argssend' = [argssend EXCEPT ![r] = ForwardConvert(key_val_arr, tokens[r])]
    /\ KeyExtracted(r)
    /\ Goto(r, "lookup")
    /\ UNCHANGED <<text, tokens, key_val_arr, found>>

\* tcpdump's getnotify copies argssend: the copy ends where the string does.
Copied(args) == [args EXCEPT !.hash = FALSE]

\* get_val_from_args, getValFromArgs: strstr finds the first "key::", be it the end
\* of a longer key; NULL if there is none.  What follows is read until a '#': from
\* the last element on past the end of the string, where nothing but the '#' that
\* forward_convert left there keeps it from running on.
ValFromArgs(args, key) ==
    LET hits == {i \in DOMAIN args.pairs :
                    /\ args.pairs[i].val # NoVal
                    /\ args.pairs[i].key = key \/ <<args.pairs[i].key, key>> \in EndsWith}
    IN  IF hits = {} THEN {FAULT}
        ELSE {args.pairs[Min(hits)].val}
             \cup {v \in {FAULT} : Min(hits) = Len(args.pairs) /\ ~args.hash}

\* np_getnotify_method looks up "count" in argssend, and the library its own keys,
\* at each call again; tcpdump does so in a copy too.
Lookup(r, key, copy) ==
    /\ pc[r] = "lookup"
    /\ \E v \in ValFromArgs(IF copy THEN Copied(argssend[r]) ELSE argssend[r], key) :
          /\ found' = [found EXCEPT ![r] = [key |-> key, val |-> v, copy |-> copy]]
          /\ Goto(r, IF v = FAULT THEN "fault" ELSE "lookup")
    /\ KeyExtracted(r)
    /\ UNCHANGED <<text, tokens, key_val_arr, argssend>>

\* A fault ends the server, with all its threads.
Next == /\ \A t \in Threads : pc[t] # "fault"
        /\ \/ \E t \in Threads : Names(t) \/ FirstToken(t) \/ NextToken(t) \/ Extracted(t)
           \/ \E r \in Requests :
                 Compare(r) \/ Convert(r) \/ \E k \in Keys \ {npname}, copy \in BOOLEAN : Lookup(r, k, copy)

Spec == Init /\ [][Next]_vars

-----------------------------------------------------------------------------
\* Type correctness.  An array never has more elements than extract_key_val has made
\* room for, whatever text strtok has taken them from.
TypeOK ==
    /\ pc \in [Threads -> {"names", "first", "next", "compare", "unknown", "refused",
                           "convert", "lookup", "done", "fault"}]
    /\ save \in [of : Threads, rest : Seq(Elements \cup {Junk})]
    /\ \A t \in Threads : /\ text[t] \in Texts[t]
                          /\ tokens[t] \in Seq(Elements \cup {Junk})
                          /\ Len(tokens[t]) <= Count(text[t])
    /\ key_val_arr \in {<<>>, tokens[Np]}
    /\ \A r \in Requests : /\ argssend[r].pairs \in Seq(Elements \cup {Junk})
                           /\ argssend[r].hash \in BOOLEAN
                           /\ found[r].val \in Vals \cup {NoVal, FAULT}
    /\ alone \in [Threads -> BOOLEAN]

\* Every element of the text has a "::".
Pairs(x) == Count(x) = Len(x)

\* Neither the registration of the NP nor the request was disturbed while it was
\* taken apart, and both are well formed.
Undisturbed(r) == \A t \in {r, Np} : alone[t] /\ Pairs(text[t])

\* A request is accepted exactly when all its keys are among those the NP was
\* registered with (compare_array), whatever their order, their number, and the
\* requests around it.
AcceptedRight ==
    \A r \in Requests : Undisturbed(r) =>
        LET known == KeysOf(text[r]) \subseteq KeysOf(text[Np])
        IN  /\ pc[r] \in {"convert", "lookup", "fault"} => known
            /\ pc[r] = "refused" => ~known

\* Whichever texts strtok has mixed up, the library gets each key the NP was
\* registered with, in that order, and no other key (forward_convert).
ProviderKeys ==
    \A r \in Requests : pc[r] \in {"lookup", "fault"} =>
        /\ Len(argssend[r].pairs) = Len(key_val_arr)
        /\ \A i \in DOMAIN key_val_arr : argssend[r].pairs[i].key = key_val_arr[i].key

\* The reference: the first of the elements of the request, and after them of the
\* NP's defaults, with this key.
Wanted(r, key) ==
    LET all == text[r] \o text[Np]
    IN  all[SelectInSeq(all, LAMBDA e : e.key = key)].val

\* What is looked up is what the request says, or else the NP's default, for the last
\* key too, and only a key the NP was not registered with follows a NULL pointer.
\* Two exceptions are in the code: a key whose name ends a longer key's, and the last
\* key in a copy.
LookupRight ==
    \A r \in Requests : Undisturbed(r) /\ found[r] # NotYet =>
        LET key  == found[r].key
            last == text[Np][Len(text[Np])].key
        IN  \/ key \notin KeysOf(text[Np]) /\ found[r].val = FAULT
            \/ key \in KeysOf(text[Np]) /\ found[r].val = Wanted(r, key)
            \/ \E k \in KeysOf(text[Np]) : <<k, key>> \in EndsWith
            \/ found[r].copy /\ key = last /\ found[r].val = FAULT
=============================================================================
