--------------------------- MODULE TranslationRecord ---------------------------
(* What a translation job promises its clients: a record of one text per chunk, *)
(* in which a chunk that has a text keeps it unless replacing is allowed, and   *)
(* pages that are made of a complete record only.  Making them takes steps, and *)
(* may stop between them; pages are whole again only as a copy of the record as *)
(* it then is, never as a mixture of two.                                       *)
CONSTANTS Chunks, Texts, NoText, Overwrites

VARIABLES text,  \* the text of every chunk, or NoText
          pages, \* the record the first page was last made from
          whole  \* whether all pages are there and of that record

vars == <<text, pages, whole>>

Untranslated == [c \in Chunks |-> NoText]
Complete == \A c \in Chunks : text[c] # NoText

Init == text = Untranslated /\ pages = Untranslated /\ whole \in BOOLEAN

Save(c, t) ==
  /\ text[c] = NoText \/ Overwrites
  /\ text' = [text EXCEPT ![c] = t]
  /\ UNCHANGED <<pages, whole>>

Begin ==
  /\ Complete
  /\ whole' = FALSE
  /\ UNCHANGED <<text, pages>>

Copy ==
  /\ Complete /\ ~whole
  /\ pages' = text
  /\ UNCHANGED <<text, whole>>

Finish ==
  /\ Complete /\ pages = text
  /\ whole' = TRUE
  /\ UNCHANGED <<text, pages>>

Next == Begin \/ Copy \/ Finish \/ \E c \in Chunks, t \in Texts : Save(c, t)

Spec == Init /\ [][Next]_vars
=============================================================================
