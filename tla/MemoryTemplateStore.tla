------------------------- MODULE MemoryTemplateStore -------------------------
(***************************************************************************)
(* The template store (template_store.go) and what a stored or registered  *)
(* template renders to (mailer.go).  Every method runs under the store's   *)
(* mutex and hands out copies, so each is one step on a record             *)
(* [mail, mailOrder, ui, uiOrder].                                         *)
(*                                                                         *)
(* A body, a subject and a page's translations are the number of the write *)
(* they came from, 0 standing for the empty string.  The translations of a *)
(* mail template are a function from languages to their subject: of the    *)
(* keys of a language it is the one the code treats apart.                 *)
(***************************************************************************)
EXTENDS Naturals, SequencesExt

Languages == {"en", "it"}

NoTemplates == [mail |-> <<>>, mailOrder |-> <<>>, ui |-> <<>>, uiOrder |-> <<>>]
Empty       == [html |-> 0, text |-> 0, tr |-> <<>>]

With(f, k, v)  == [x \in DOMAIN f \cup {k} |-> IF x = k THEN v ELSE f[x]]
Noted(s, k)    == IF k \in ToSet(s) THEN s ELSE Append(s, k)

\* A patch holds the fields that were submitted; the others stay.
UpdateMailTemplate(store, id, patch) ==
  LET current == IF id \in DOMAIN store.mail THEN store.mail[id] ELSE Empty IN
  [store EXCEPT
     !.mail = With(@, id, [f \in DOMAIN Empty |-> IF f \in DOMAIN patch THEN patch[f] ELSE current[f]]),
     !.mailOrder = Noted(@, id)]

\* A page's translations are replaced as a whole.
UpdateUITranslations(store, page, translations) ==
  [store EXCEPT !.ui = With(@, page, translations), !.uiOrder = Noted(@, page)]

\* Listing walks the order the keys were first written in; it must know each once.
Listed(order, table) == IsInjective(order) /\ ToSet(order) = DOMAIN table

(***************************************************************************)
(* Rendering.                                                              *)
(***************************************************************************)
ResolveLang(lang, default) == IF lang \in Languages THEN lang ELSE default
Registered(lang)           == IF lang \in Languages THEN lang ELSE "en"

PickTranslations(tr, lang) ==
  IF lang \in DOMAIN tr THEN tr[lang] ELSE IF "en" \in DOMAIN tr THEN tr["en"] ELSE 0

\* What a mail is made of: which write each part came from, 0 for the template
\* registered with the mailer, and the language of the latter.
Rendered(html, text, subject, lang) ==
  [html |-> html, text |-> text, subject |-> subject, lang |-> lang]

\* A stored template counts only with both of its bodies; its subject falls
\* back to the registered one.
RenderMail(store, id, lang) ==
  IF /\ id \in DOMAIN store.mail
     /\ store.mail[id].html # 0 /\ store.mail[id].text # 0
  THEN Rendered(store.mail[id].html, store.mail[id].text, PickTranslations(store.mail[id].tr, lang), Registered(lang))
  ELSE Rendered(0, 0, 0, Registered(lang))

=============================================================================
