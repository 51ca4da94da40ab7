------------------------------ MODULE SqlScan ------------------------------
(***************************************************************************)
(* How the statement guards split SQL text into tokens under an engine's   *)
(* lexicon, and why they read some of it twice: whether a backslash        *)
(* escapes depends on a setting of the server's that the guard cannot see. *)
(*                                                                         *)
(* A text is a sequence of units: "word" (one a guard refuses), "E",       *)
(* the quotes, the backslash ("escape"), and what opens and ends comments. *)
(***************************************************************************)
EXTENDS Integers, Sequences, FiniteSets

CONSTANT ScanTexts          \* engine -> the texts asked about
VARIABLE scanned        \* [engine, text]

\* The lexicons of the engines, SQLLexicon's fields that are set.
Lexicon == [tsql |-> {"bracket", "nested"},
            postgres |-> {"dollar", "nested", "estring"},
            mysql |-> {"backtick", "hash", "backslash"}]

Engines == DOMAIN Lexicon

ASSUME TextsAssumption == \A e \in Engines : ScanTexts[e] \subseteq Seq(STRING)

\* The settings a server of the engine may have, by the quotes in which a backslash escapes:
\* MySQL's "..." is an identifier under ANSI_QUOTES, and nothing escapes in one.
Settings == [tsql |-> [default |-> {}],
             postgres |-> [default |-> {}, nonstandard_strings |-> {"quote"}],
             mysql |-> [default |-> {"quote", "dquote"}, no_backslash_escapes |-> {},
                        ansi_quotes |-> {"quote"}]]

---------------------------------------------------------------------------
(* scanSQL. A result of 0 for a position is an end that is not there.       *)

At(t, i) == IF i \in DOMAIN t THEN t[i] ELSE "end"

\* Past the q that closes what ends with it, from each place; a doubled q stands for itself.
ClosesAt(t, q, escapes) ==
    LET Past[j \in 1..Len(t) + 2] ==
            IF j > Len(t) THEN 0
            ELSE IF t[j] \in escapes \/ (t[j] = q /\ At(t, j + 1) = q) THEN Past[j + 2]
            ELSE IF t[j] = q THEN j + 1
            ELSE Past[j + 1]
    IN  Past

Escapes(backslashes) == IF backslashes THEN {"escape"} ELSE {}

\* quoted, bracketed
Quoted(t, i, backslashes) == ClosesAt(t, t[i], Escapes(backslashes))[i + 1]
Bracketed(t, i) == ClosesAt(t, "bracket]", {})[i + 1]

\* The first of some places, and the place past it, 0 if there is none.
FirstOf(places) == CHOOSE j \in places : \A k \in places : j <= k
PastFirst(places) == IF places = {} THEN 0 ELSE FirstOf(places) + 1

\* skipBlockComment: how deep it is after each unit; ends at the first */, or at the one that
\* balances it.
Deepen(c, d, nested) ==
    IF c = "close" THEN d - 1 ELSE IF nested /\ c \in {"open", "exec"} THEN d + 1 ELSE d
Depths(t, i, nested) ==
    LET D[n \in 0..Len(t)] == IF n <= i THEN 1 ELSE Deepen(t[n], D[n - 1], nested) IN D
Comment(t, i, nested) == PastFirst({j \in (i + 1)..Len(t) : Depths(t, i, nested)[j] = 0})

\* skipLine stops at what any engine ends a line at.
Line(t, i) == LET ends == {j \in i..Len(t) : t[j] = "newline"}
              IN  IF ends = {} THEN Len(t) + 1 ELSE FirstOf(ends)

\* dollarDelimiter and the body of what it opens, taken verbatim.
Dollar(t, i) == PastFirst({j \in (i + 1)..Len(t) : t[j] = t[i]})

\* scan: where the unit at i and what it opens end, how many /*! it opens, and its token.
Unit(t, i, lex, backslashes, execs) ==
    LET past(p) == [to |-> p, execs |-> execs, token |-> {}]
        c == t[i]
    IN  CASE c = "dashes" -> past(Line(t, i))
          [] c = "hash#" /\ "hash" \in lex -> past(Line(t, i))
          [] c = "exec" /\ "hash" \in lex -> [past(i + 1) EXCEPT !.execs = execs + 1]
          [] c \in {"open", "exec"} /\ ~(c = "exec" /\ "hash" \in lex) -> past(Comment(t, i, "nested" \in lex))
          [] c = "close" /\ execs > 0 -> [past(i + 1) EXCEPT !.execs = execs - 1]
          [] c = "quote" -> past(Quoted(t, i, backslashes))
          [] c = "dquote" -> past(Quoted(t, i, backslashes /\ "backslash" \in lex))
          [] c = "tick" /\ "backtick" \in lex -> past(Quoted(t, i, FALSE))
          [] c = "bracket[" /\ "bracket" \in lex -> past(Bracketed(t, i))
          [] c = "dollars" /\ "dollar" \in lex -> past(Dollar(t, i))
          [] c = "E" /\ "estring" \in lex /\ At(t, i + 1) = "quote" -> past(Quoted(t, i + 1, TRUE))
          [] c = "word" -> [past(i + 1) EXCEPT !.token = {i}]
          [] OTHER -> past(i + 1)

Begun == [at |-> 1, execs |-> 0, words |-> {}]

\* scanSQL: one unit more, as long as there is any; the words found, and where the scan is, or
\* 0 when something is still open at the end.
Scanned(t, s, lex, backslashes) ==
    LET u == Unit(t, s.at, lex, backslashes, s.execs)
    IN  IF s.at \notin DOMAIN t THEN s
        ELSE [at |-> u.to, execs |-> u.execs, words |-> s.words \cup u.token]
Scans(t, lex, backslashes) ==
    LET S[n \in 0..Len(t)] == IF n = 0 THEN Begun ELSE Scanned(t, S[n - 1], lex, backslashes) IN S
Scan(t, lex, backslashes) == Scans(t, lex, backslashes)[Len(t)]
Unfinished(s) == s.at = 0 \/ s.execs > 0

\* Fault: a text is read as the server reads it by default, and not under the other setting.
GuardsOneReading(t, engine) ==
    LET s == Scan(t, Lexicon[engine], "backslash" \in Lexicon[engine]) IN Unfinished(s) \/ s.words # {}

\* guardTokens: refused when unfinished, or when either reading finds a word to refuse.
Guards(t, engine) ==
    LET lex == Lexicon[engine]
        first == Scan(t, lex, "backslash" \in lex)
    IN  \/ Unfinished(first) \/ first.words # {}
        \/ /\ \E i \in DOMAIN t : t[i] = "escape"
           /\ lex \cap {"backslash", "estring"} # {}
           /\ Scan(t, lex, "backslash" \notin lex).words # {}

---------------------------------------------------------------------------
(* How a server reads the same text, one unit after the other.              *)

Code == [in |-> "code", q |-> "", esc |-> {}, depth |-> 0, was |-> ""]

Opens(m, c, lex, setting) ==
    LET lit(q, esc) == [Code EXCEPT !.in = "quoted", !.q = q, !.esc = Escapes(esc)]
    IN  CASE c = "dashes" \/ (c = "hash#" /\ "hash" \in lex) -> [Code EXCEPT !.in = "line"]
          [] c = "open" \/ (c = "exec" /\ "hash" \notin lex) -> [Code EXCEPT !.in = "comment", !.depth = 1]
          [] c = "quote" -> lit(c, "quote" \in setting \/ (m.was = "E" /\ "estring" \in lex))
          [] c = "dquote" -> lit(c, "dquote" \in setting)
          [] c = "tick" /\ "backtick" \in lex -> lit(c, FALSE)
          [] c = "bracket[" /\ "bracket" \in lex -> lit("bracket]", FALSE)
          [] c = "dollars" /\ "dollar" \in lex -> [Code EXCEPT !.in = "dollar"]
          [] OTHER -> [Code EXCEPT !.was = c]

\* A closed quote that is followed by another goes on as it was.
Reads(m, c, lex, setting) ==
    CASE m.in = "code" -> Opens(m, c, lex, setting)
      [] m.in = "line" -> IF c = "newline" THEN Code ELSE m
      [] m.in = "comment" -> IF c = "close" /\ m.depth = 1 THEN Code
                             ELSE [m EXCEPT !.depth = Deepen(c, @, "nested" \in lex)]
      [] m.in = "dollar" -> IF c = "dollars" THEN Code ELSE m
      [] m.in = "closed" -> IF c = m.q THEN [m EXCEPT !.in = "quoted"] ELSE Opens(Code, c, lex, setting)
      [] m.in = "escaped" -> [m EXCEPT !.in = "quoted"]
      [] m.in = "quoted" -> IF c \in m.esc THEN [m EXCEPT !.in = "escaped"]
                            ELSE IF c = m.q THEN [m EXCEPT !.in = "closed"] ELSE m

\* Where a server with this setting is after each unit of t, and how many /*! it has entered
\* and not left: what stands in one is code to it.
InCode == {"code", "closed"}
Server(t, lex, setting) ==
    LET M[n \in 0..Len(t)] == IF n = 0 THEN Code ELSE Reads(M[n - 1], t[n], lex, setting) IN M
Enters(m, c, lex, execs) ==
    IF m.in \notin InCode THEN execs
    ELSE IF c = "exec" /\ "hash" \in lex THEN execs + 1
    ELSE IF c = "close" /\ execs > 0 THEN execs - 1 ELSE execs
Entered(t, lex, setting) ==
    LET E[n \in 0..Len(t)] ==
            IF n = 0 THEN 0 ELSE Enters(Server(t, lex, setting)[n - 1], t[n], lex, E[n - 1])
    IN  E

\* The words it would find, and whether it would wait for more.
Runs(t, lex, setting) == {i \in DOMAIN t : t[i] = "word" /\ Server(t, lex, setting)[i - 1].in \in InCode}
Waits(t, lex, setting) == \/ Server(t, lex, setting)[Len(t)].in \notin InCode \cup {"line"}
                    \/ Entered(t, lex, setting)[Len(t)] > 0

ScanInit == scanned \in UNION {[engine : {e}, text : ScanTexts[e]] : e \in Engines}
ScanNext == UNCHANGED scanned
ScanSpec == ScanInit /\ [][ScanNext]_scanned

\* Where both kinds of quotes stand, MySQL's ANSI_QUOTES is a third reading; elsewhere it is one
\* of the two the guards make.
BothQuotes(t) == \A q \in {"quote", "dquote"} : \E i \in DOMAIN t : t[i] = q

\* What the guards let through has no refused word in any setting of the engine's server, the
\* third reading aside, and is finished in the default one; what they refuse has such a word, or
\* is not finished (readonly.go:77-82, 113-121, 311-327).
GuardReadsAsServers ==
    LET t == scanned.text
        engine == scanned.engine
        lex == Lexicon[engine]
    IN  Guards(t, engine) <=>
           \/ \E mode \in DOMAIN Settings[engine] :
                 /\ mode = "ansi_quotes" => ~BothQuotes(t)
                 /\ Runs(t, lex, Settings[engine][mode]) # {}
           \/ Waits(t, lex, Settings[engine].default)
=============================================================================
