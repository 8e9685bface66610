----------------------------- MODULE MCPublication -----------------------------
(* A small instance of the two users of claim verification: the critic cycle  *)
(* and the synthesis request.  They share the rules and no state, so a        *)
(* behaviour is of one part and leaves the other at one idle state.           *)
EXTENDS CriticLoop, Synthesis

VARIABLE part

allVars == <<part, criticVars, synthesisVars>>

Claim(type, expected, context, negated) ==
    [type |-> type, expected |-> expected, unit |-> context, currency |-> context,
     period |-> context, asOf |-> Undated, negated |-> negated, hedged |-> FALSE,
     long |-> FALSE]

Ref(tier, value, context, asOf, retrieved) ==
    [id |-> 1, source |-> "s", tier |-> tier, relevant |-> TRUE, value |-> value,
     unit |-> context, currency |-> context, period |-> context, asOf |-> asOf,
     retrieved |-> retrieved, negated |-> FALSE, hedged |-> FALSE]

Beside == [Ref(1, "none", "none", Undated, 0) EXCEPT !.relevant = FALSE]

MCClaims ==
    {Claim("numeric", "v", x, FALSE) : x \in BOOLEAN}
      \cup {Claim("prose", "none", FALSE, n) : n \in BOOLEAN}
      \cup {Claim("numeric", "none", FALSE, FALSE), Claim("numeric", "nonfinite", FALSE, FALSE),
            [Claim("prose", "none", FALSE, FALSE) EXCEPT !.long = TRUE]}

\* Day numbers run from 0; the future starts after LastDay.
MCEvidence ==
    {[Beside EXCEPT !.id = 0], Beside, Ref(1, "nonfinite", "same", Undated, 2),
     Ref(1, "v", "same", 0, 2), Ref(1, "v", "same", 3, 2), Ref(1, "v", "same", Undated, 4),
     Ref(4, "v", "none", Undated, 2), Ref(4, "v", "other", Undated, 2),
     Ref(4, "v", "other_case", Undated, 1)}
      \cup {Ref(t, v, "same", Undated, 0) : t \in {1, 2, 4}, v \in {"v", "w"}}
      \cup {[Ref(4, "none", "none", Undated, 2) EXCEPT !.negated = n, !.hedged = h] :
              n \in BOOLEAN, h \in BOOLEAN}

-----------------------------------------------------------------------------

Numbered(refs) == [i \in DOMAIN refs |-> [refs[i] EXCEPT !.id = i]]

Item(claim0, refs) ==
    [id |-> 1, claim |-> claim0, refs |-> Numbered(refs), section |-> 1,
     materiality |-> 1, kind |-> "other", advice |-> FALSE, identity |-> "ok",
     contexts |-> "ok", reason |-> "none"]

Figure == Claim("numeric", "v", TRUE, FALSE)
Prose == Claim("prose", "none", FALSE, FALSE)
Says(tier) == [Ref(tier, "none", "none", Undated, 2) EXCEPT !.source = "t"]
Denies(tier) == [Says(tier) EXCEPT !.negated = TRUE]
Price(asOf) == [Item([Figure EXCEPT !.asOf = asOf], <<Ref(1, "v", "same", Undated, 2)>>)
                  EXCEPT !.kind = "market_price"]

Facts == {Item(Figure, <<Ref(1, "v", "same", Undated, 2)>>), Price(2)}

Others ==
    {Item(Figure, <<Ref(4, "v", "none", Undated, 0)>>),
     Item(Figure, <<Ref(4, "v", "same", Undated, 2), Ref(4, "v", "same", 2, 2)>>),
     Item(Figure, <<Ref(1, "v", "same", Undated, 2), Ref(2, "w", "same", Undated, 2)>>),
     Item(Prose, <<Says(1), Denies(2)>>),
     Item(Prose, <<Says(3)>>), Item(Prose, <<Denies(1)>>), Item(Prose, <<Beside>>),
     Item(Figure, <<Ref(1, "v", "same", 0, 0)>>),
     [Item(Figure, <<Ref(1, "v", "same", Undated, 2)>>) EXCEPT !.advice = TRUE]}

\* Claims of their own: kinds, dates, what a caller may get wrong.
Alone ==
    {Price(a) : a \in {Undated, 0, 1, 3}}
      \cup {[Item(Figure, <<Ref(t, "v", "same", Undated, 2), Ref(1, v, "same", 2, d)>>)
               EXCEPT !.kind = k] :
              t \in {2, 3, 4}, v \in {"v", "w"}, d \in {2, 4},
              k \in {"revenue", "margin", "regulatory_action", "material_event"}}
      \cup {[Item(Prose, <<Says(t), Ref(1, "none", "none", Undated, d)>>) EXCEPT !.kind = "revenue"] :
              t \in {1, 4}, d \in {2, 4}}
      \cup {[i EXCEPT !.identity = "foreign"] : i \in Facts}
      \cup {[i EXCEPT !.contexts = "foreign"] : i \in Facts}
      \cup {[i EXCEPT !.reason = "awaiting"] : i \in Facts}
      \cup {Item(Figure, <<Ref(1, "v", "same", 2, 2), Ref(2, "v", "same", 2, 1)>>),
            [Item(Prose, <<Denies(1)>>) EXCEPT !.claim.long = TRUE],
            [Item(Figure, <<>>) EXCEPT !.refs = <<Ref(1, "v", "same", 2, 2), Ref(2, "w", "same", 2, 2)>>]}

Numbering(items) == [i \in DOMAIN items |-> [items[i] EXCEPT !.id = i]]

MCRequests ==
    {[items |-> <<i>>, resolved |-> TRUE, format |-> f] :
        i \in Facts \cup Others \cup Alone, f \in {"none", "structured_json", "markdown", "docx", "unknown"}}
      \cup {[items |-> <<i>>, resolved |-> FALSE, format |-> "none"] : i \in Facts}
      \cup {[items |-> <<i, i>>, resolved |-> TRUE, format |-> "none"] : i \in Facts}
      \cup {[items |-> Numbering(<<[a EXCEPT !.section = 8, !.materiality = 3],
                                   [b EXCEPT !.section = 4, !.materiality = 2], c>>),
             resolved |-> TRUE, format |-> f] :
              a \in Facts \cup Others, b \in Facts, c \in Others, f \in {"markdown", "docx"}}

-----------------------------------------------------------------------------

CriticIdle ==
    /\ claim = Claim("numeric", "v", TRUE, FALSE) /\ evidence = <<>> /\ day = 1

SynthesisIdle ==
    /\ request = [items |-> <<Item(Figure, <<Ref(1, "v", "same", Undated, 2)>>)>>,
                  resolved |-> FALSE, format |-> "none"]
    /\ now = 2

Init ==
    /\ part \in {"critic", "synthesis"}
    /\ CriticInit /\ (part # "critic" => CriticIdle)
    /\ SynthesisInit /\ (part # "synthesis" => SynthesisIdle)

Next ==
    \/ part = "critic" /\ CriticNext /\ UNCHANGED <<part, synthesisVars>>
    \/ part = "synthesis" /\ SynthesisNext /\ UNCHANGED <<part, criticVars>>

Spec == Init /\ [][Next]_allVars

=============================================================================
