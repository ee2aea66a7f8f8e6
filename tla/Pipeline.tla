------------------------------ MODULE Pipeline ------------------------------
(***************************************************************************)
(* Elements in a chain, src/cf_factory/cf_element.c with cf_pad.c and the  *)
(* accessors of cf_element_class.c.  A class has a processor or none, and  *)
(* a method that releases what its processor returned or none.  A          *)
(* processor makes new data, passes on what it was given, or drops it and  *)
(* returns NULL; a class whose processor passes data on has no release     *)
(* method, as the data would be released twice.  Elements are linked       *)
(* without circles.                                                        *)
(***************************************************************************)
EXTENDS Naturals, Sequences, FiniteSets, SequencesExt

CONSTANTS Elements,  \* numbers: an element is linked to a greater one
          Classes,   \* [processer, releases, cap], cap for both capabilities
          Null

VARIABLES class,     \* per element its class, or Null
          pad,       \* per element the one behind it, or Null
          stack,     \* the calls of cf_element_push
          made,      \* the elements that made data, in order; datum d is made by
                     \* made[d], and datum 0 comes from outside
          released   \* per datum how often it was released

vars == <<class, pad, stack, made, released>>

Init == /\ class = [e \in Elements |-> Null]
        /\ pad = [e \in Elements |-> Null]
        /\ stack = <<>> /\ made = <<>>
        /\ released = [d \in 0 .. Cardinality(Elements) |-> 0]

Quiet == stack = <<>>

\* cf_element_create, when the constructor does not fail: otherwise the element
\* is freed and there is none.
Create(e, c) == /\ Quiet /\ class[e] = Null
                /\ class' = [class EXCEPT ![e] = c]
                /\ UNCHANGED <<pad, stack, made, released>>

\* A later link takes the place of an earlier one.
Link(e, f) == /\ Quiet /\ e < f
              /\ class[e] # Null /\ class[f] # Null
              /\ class[e].cap = class[f].cap
              /\ pad' = [pad EXCEPT ![e] = f]
              /\ UNCHANGED <<class, stack, made, released>>

Call(e, d) == [element |-> e, data |-> d, next |-> Null, done |-> FALSE]
Top == stack[Len(stack)]
TopClass == class[Top.element]

\* Data come from outside; those of an earlier push are over.
Push(e) == /\ Quiet /\ class[e] # Null
           /\ stack' = <<Call(e, 0)>>
           /\ made' = <<>>
           /\ released' = [d \in DOMAIN released |-> 0]
           /\ UNCHANGED <<class, pad>>

\* An element without a processor ends the chain.
Ignore == /\ ~Quiet /\ TopClass.processer = "none"
          /\ stack' = Front(stack)
          /\ UNCHANGED <<class, pad, made, released>>

Processed == CASE TopClass.processer = "makes" -> Len(made) + 1
               [] TopClass.processer = "passes" -> Top.data
               [] OTHER -> Null

\* The processor returns, and the element behind is given that, NULL too.
Process ==
  LET called == [stack EXCEPT ![Len(stack)].next = Processed, ![Len(stack)].done = TRUE]
      behind == pad[Top.element]
  IN /\ ~Quiet /\ TopClass.processer # "none" /\ ~Top.done
     /\ made' = IF TopClass.processer = "makes" THEN Append(made, Top.element) ELSE made
     /\ stack' = IF behind = Null THEN called ELSE Append(called, Call(behind, Processed))
     /\ UNCHANGED <<class, pad, released>>

\* The data that are released: those the processor returned, not those it got.
Given == Top.data
Returned == Top.next

\* The chain behind has returned.
Release == /\ ~Quiet /\ Top.done
           /\ released' = IF TopClass.releases /\ Returned # Null
                          THEN [released EXCEPT ![Returned] = @ + 1] ELSE released
           /\ stack' = Front(stack)
           /\ UNCHANGED <<class, pad, made>>

Next == \/ Ignore \/ Process \/ Release
        \/ \E e \in Elements : \/ Push(e)
                               \/ \E c \in Classes : Create(e, c)
                               \/ \E f \in Elements : Link(e, f)

Spec == Init /\ [][Next]_vars

-----------------------------------------------------------------------------
\* Data are released once by the class of the element that made them, if it has a
\* method for it, and not before every element that was given them has returned,
\* through however many elements they were passed; data from outside stay with
\* the caller.
ReleasedBehind ==
  /\ released[0] = 0
  /\ \A d \in DOMAIN made :
       /\ released[d] <= 1
       /\ released[d] = 1 => \A i \in DOMAIN stack : d \notin {stack[i].data, stack[i].next}
       /\ Quiet => released[d] = IF class[made[d]].releases THEN 1 ELSE 0
=============================================================================
