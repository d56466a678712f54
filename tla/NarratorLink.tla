---------------------------- MODULE NarratorLink ----------------------------
(***************************************************************************)
(* The narrative engine's line to a language model                         *)
(* (engine/src/engine/providers: transport, registry, jsonproto and the    *)
(* wire adapters; pipeline.py: LiveNarrator).                              *)
(*                                                                         *)
(* A canary call finds out whether the model calls tools, and its verdict  *)
(* is cached.  A tale is asked for with tools, or as JSON in text: a reply *)
(* that does not parse is asked for once more, then taken as prose.  A     *)
(* reply is told apart by how its deltas can be read from it.              *)
(***************************************************************************)
EXTENDS Integers, FiniteSets

CONSTANTS
    Retries,        \* ProviderConfig.max_retries
    ParseAttempts,  \* LiveNarrator.max_parse_attempts
    Items,          \* delta items a reply may carry
    Known,          \* those whose kind is one of DELTA_KINDS
    MaxTales        \* bound on the calls of narrate

ASSUME LinkAssumption ==
    /\ Retries \in Nat /\ ParseAttempts \in Nat \ {0} /\ MaxTales \in Nat
    /\ Known \subseteq Items

VARIABLES
    cache,    \* the provider_caps row
    caps,     \* adapter.caps.native_tools
    link,     \* the round trip at work, with its local variables
    result,   \* what narrate returned last
    shown,    \* the verdicts answered canaries came to
    tales     \* bound: narrate calls made

linkVars == <<cache, caps, link, result, shown, tales>>

Verdicts == {"none", "tools", "prose"}

\* A reply: a call of the delta tool, of some tool, text that parses, text
\* that parses without its trailing commas, or nothing that does.
WithTools == {"call", "othercall"}
Texts == {"object", "commas", "words"}
Replies == WithTools \cup Texts

Line ==
    [ at      : {"idle", "send", "read"},
      canary  : BOOLEAN,
      native  : BOOLEAN,             \* tools are offered
      attempt : 0..Retries,          \* post_json
      failed  : 0..ParseAttempts,    \* replies that did not parse
      posts   : Nat,                 \* requests that left, for the whole call
      reply   : Replies,
      items   : SUBSET Items ]

Result ==
    [ status : {"none", "proposals", "prose", "error"},
      deltas : SUBSET Items, reply : Replies, posts : Nat, retryable : BOOLEAN ]

Hung == [at |-> "idle", canary |-> FALSE, native |-> FALSE, attempt |-> 0, failed |-> 0,
         posts |-> 0, reply |-> "words", items |-> {}]
Nothing == [status |-> "none", deltas |-> {}, reply |-> "words", posts |-> 0,
            retryable |-> FALSE]

\* The wire family is taken to call tools until a probe settles it.
LinkInit ==
    /\ cache \in Verdicts \cup {"corrupt"} /\ caps = TRUE
    /\ link = Hung /\ result = Nothing
    /\ shown = {"tools", "prose"} \cap {cache}
    /\ tales = 0

-----------------------------------------------------------------------------
(* Slips *)

\* A probe no reply came back to is cached like the others.
Cacheable(answered) == TRUE

\* A reply that does not parse is asked for again.
RoundAlways == TRUE

\* A delta of an unknown kind is kept.
AllItems(items) == items

-----------------------------------------------------------------------------
(* probe_capabilities *)

\* A verdict of this provider and model is used again, unless forced.
Recall ==
    /\ link.at = "idle" /\ cache \in {"tools", "prose"}
    /\ caps' = (cache = "tools")
    /\ UNCHANGED <<cache, link, result, shown, tales>>

\* No verdict, a row that cannot be read, or a forced probe.
Probe ==
    /\ link.at = "idle"
    /\ link' = [Hung EXCEPT !.at = "send", !.canary = TRUE, !.native = TRUE]
    /\ UNCHANGED <<cache, caps, result, shown, tales>>

\* Only a verdict that came from a reply is cached.
CachedFrom(answered) == answered

\* The adapter has the verdict either way; a store that is sick keeps none.
Conclude(verdict, answered) ==
    /\ caps' = (verdict = "tools")
    /\ \/ CachedFrom(answered) /\ cache' = verdict
       \/ UNCHANGED cache
    /\ link' = Hung

\* _run_canary: a call of its tool, or anything else.
CanaryAnswered ==
    /\ link.at = "read" /\ link.canary
    /\ LET verdict == IF link.reply = "call" THEN "tools" ELSE "prose" IN
       Conclude(verdict, TRUE) /\ shown' = shown \cup {verdict}
    /\ UNCHANGED <<result, tales>>

-----------------------------------------------------------------------------
(* post_json *)

\* One request leaves.  What the adapter makes of the body is a reply.
Answered ==
    /\ link.at = "send"
    /\ \E reply \in Replies, items \in SUBSET Items :
         /\ reply \in WithTools => link.native
         /\ reply \in {"othercall", "words"} => items = {}
         /\ link' = [link EXCEPT !.at = "read", !.posts = @ + 1, !.reply = reply, !.items = items]
    /\ UNCHANGED <<cache, caps, result, shown, tales>>

\* A timeout, a broken connection, 408, 425, 429 or 5xx: sent again, later.
SendAgain ==
    /\ link.at = "send" /\ link.attempt < Retries
    /\ link' = [link EXCEPT !.attempt = @ + 1, !.posts = @ + 1]
    /\ UNCHANGED <<cache, caps, result, shown, tales>>

\* Out of retries, or a failure that is not retryable: any other 4xx, a body
\* that is no JSON object, an error body, a reply without choices.
SendFails ==
    /\ link.at = "send"
    /\ \E retryable \in BOOLEAN :
         /\ retryable => link.attempt = Retries
         /\ IF link.canary
            THEN Conclude("prose", FALSE) /\ UNCHANGED result
            ELSE /\ result' = [Nothing EXCEPT !.status = "error", !.posts = link.posts + 1,
                                              !.retryable = retryable]
                 /\ link' = Hung
                 /\ UNCHANGED <<cache, caps>>
    /\ UNCHANGED <<shown, tales>>

-----------------------------------------------------------------------------
(* LiveNarrator.narrate *)

Narrate ==
    /\ link.at = "idle" /\ tales < MaxTales
    /\ link' = [Hung EXCEPT !.at = "send", !.native = caps]
    /\ tales' = tales + 1
    /\ UNCHANGED <<cache, caps, result, shown>>

Told(status, deltas) ==
    /\ result' = [status |-> status, deltas |-> deltas, reply |-> link.reply,
                  posts |-> link.posts, retryable |-> FALSE]
    /\ link' = Hung
    /\ UNCHANGED <<cache, caps, shown, tales>>

\* _delta_from_item: an unknown kind is dropped, and so is what is no object.
Readable(items) == items \cap Known

Reading == link.at = "read" /\ ~link.canary

\* parse_with_repair: strictly, in a fence, in prose, without its commas.
Parsed == link.reply \in {"object", "commas"}

TellDeltas ==
    /\ Reading /\ (link.reply = "call" \/ Parsed)
    /\ Told("proposals", Readable(link.items))

\* Tools were offered: some other call, or prose.
TellProse ==
    /\ Reading /\ link.native /\ link.reply \in {"othercall", "words"}
    /\ Told("prose", {})

\* should_regenerate, with the attempts made so far
RoundLeft == link.failed + 1 < ParseAttempts

\* The model is asked again, in a request with retries of its own.
AskAgain ==
    /\ Reading /\ ~link.native /\ link.reply = "words" /\ RoundLeft
    /\ link' = [link EXCEPT !.at = "send", !.attempt = 0, !.failed = @ + 1]
    /\ UNCHANGED <<cache, caps, result, shown, tales>>

\* The reply is the prose.
GiveUp ==
    /\ Reading /\ ~link.native /\ link.reply = "words" /\ ~RoundLeft
    /\ Told("prose", {})

LinkNext ==
    \/ Recall \/ Probe \/ CanaryAnswered
    \/ Answered \/ SendAgain \/ SendFails
    \/ Narrate \/ TellDeltas \/ TellProse \/ AskAgain \/ GiveUp

LinkSpec == LinkInit /\ [][LinkNext]_linkVars

-----------------------------------------------------------------------------
(* Properties *)

LinkTypeOK ==
    /\ cache \in Verdicts \cup {"corrupt"} /\ caps \in BOOLEAN
    /\ link \in Line /\ result \in Result
    /\ shown \subseteq Verdicts /\ tales \in 0..MaxTales

\* An outage never freezes a verdict: what is cached, a reply showed.
VerdictEarned == cache \in {"tools", "prose"} => cache \in shown

\* However the line fails, a tale costs no more requests than the rounds and
\* their retries allow.
Bounded == link.posts <= ParseAttempts * (Retries + 1)

\* Deltas come from a reply that parsed and are of a known kind; a failure
\* that was worth a retry is not given up before the retries are spent.
ReadNotGuessed ==
    /\ result.deltas \subseteq Known
    /\ result.deltas # {} => result.reply \in {"call", "object", "commas"}
    /\ result.status = "error" /\ result.retryable => result.posts > Retries

LinkHonest == VerdictEarned /\ Bounded /\ ReadNotGuessed
=============================================================================
