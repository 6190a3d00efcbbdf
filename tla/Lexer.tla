-------------------------------- MODULE Lexer --------------------------------
(***************************************************************************)
(* The lexer (lexer/lexer.cpp).  A source is the sequence of its words,    *)
(* literals, symbol characters and blanks; a token is the word or literal, *)
(* or the symbol one or two characters make.  What a `?' means depends on  *)
(* the token before it.                                                     *)
(***************************************************************************)
EXTENDS Naturals, Sequences

CONSTANT Names   \* identifiers

VARIABLES
  source,   \* source_
  at,       \* pos_ of the lexer, as the number of the next piece
  tokens,   \* the tokens so far; the last one is last_tok_
  garbled   \* has_errors()

lexVars == <<source, at, tokens, garbled>>

-----------------------------------------------------------------------------
(* Token kinds.                                                             *)

\* Literals: "n..." are the ones no number of the machine can hold.
Ints       == {"1i", "ni"}
Uints      == {"1u", "nu"}
Floats     == {"1f", "nf"}
OutOfRange == {"ni", "nu", "nf"}
Strings    == {"text"}
Literals   == Ints \cup Uints \cup Floats \cup Strings \cup {"1b", "0b"}

PlainTypes   == {"i32", "B", "Tup", "never", "()"}
GenericTypes == {"Tru", "Utr", "Own", "Ref", "Shr", "Opt", "Lst", "Ch"}
OtherTypes   == {"Str", "Map", "Bnd", "Aim", "Cst", "Cnf", "Dat", "Enm", "Agt"}
TypeTokens   == PlainTypes \cup GenericTypes \cup OtherTypes  \* is_type_token

AtWords == {"@trace", "@prot", "@ffi", "@budget", "@mem", "@correct", "@spn",
            "@snd", "@rcv", "@syn", "@par"}
Words == Names \cup Literals \cup AtWords \cup {"fn"} \cup (TypeTokens \ {"()"})

Pairs == {"()", ":=", "::", "->", "<-", ">>", "^!", "+>", "==", "!=", "<=", ">=",
          "@(", "#[", "#>", "#$", "#!", "#@", "#~", "#?", "#*", "#^", "#&"}
Singles == {"=", "$", "~", "^", ":", "+", "-", "*", "/", "<", ">", "&", "|", "!",
            "{", "}", "(", ")", "[", "]", ",", ";", "."}
Blanks == {" ", "newline"}

\* The token that stands for a `?' behind the token t: of a result type, of
\* propagation, or of a branch.
Question(t) ==
  IF t \in TypeTokens THEN "?r"
  ELSE IF t \in Names \cup {")"} THEN "?p" ELSE "?"

-----------------------------------------------------------------------------
LastToken == IF tokens = <<>> THEN "" ELSE tokens[Len(tokens)]
Piece(k) == IF k <= Len(source) THEN source[k] ELSE ""
TwoOf == Piece(at) \o Piece(at + 1)

\* make_token.
Make(t, width) ==
  /\ tokens' = Append(tokens, t)
  /\ at' = at + width
  /\ UNCHANGED <<source, garbled>>

\* skip_whitespace: blanks, and comments up to the end of their line.
SkipBlank ==
  /\ \/ Piece(at) \in Blanks /\ at' = at + 1
     \/ /\ TwoOf = "//"
        /\ at' = CHOOSE k \in at .. Len(source) + 1 :
                   /\ k = Len(source) + 1 \/ Piece(k) = "newline"
                   /\ \A j \in at .. k - 1 : Piece(j) # "newline"
  /\ UNCHANGED <<source, tokens, garbled>>

\* scan_number_literal, scan_string_literal, scan_identifier_or_keyword, and
\* scan_at_primitive where it knows the word.
ScanWord == Piece(at) \in Words /\ Make(Piece(at), 1)

\* scan_symbol and scan_annotation of two characters; both = and == are TOK_EQ.
ScanPair == TwoOf \in Pairs /\ Make(IF TwoOf = "==" THEN "=" ELSE TwoOf, 2)

\* scan_symbol of one.
ScanSymbol ==
  /\ TwoOf \notin Pairs \cup {"//"}
  /\ \/ Piece(at) \in Singles /\ Make(Piece(at), 1)
     \/ Piece(at) = "?" /\ Make(Question(LastToken), 1)

\* make_error: what is no token, and the piece behind it.
ScanError ==
  /\ at <= Len(source)
  /\ Piece(at) \notin Words \cup Singles \cup Blanks \cup {"?"} /\ TwoOf \notin Pairs
  /\ garbled' = TRUE
  /\ tokens' = Append(tokens, "error")
  /\ at' = at + 2
  /\ UNCHANGED source

Scan == SkipBlank \/ ScanWord \/ ScanPair \/ ScanSymbol \/ ScanError

LexInit(text) ==
  /\ source = text
  /\ at = 1 /\ tokens = <<>> /\ garbled = FALSE

==============================================================================
