# TLA+ verification of tdewolff/parse

`parse` is a Go package of lexers and parsers (CSS, HTML, JavaScript, JSON,
XML) and the utilities they stand on: buffers that read a stream in chunks, a
cursor over a file, integer codecs, number conversion, URL coding.  This
directory models them in TLA+, checks the models with TLC on small instances, and
proves the main results for every value of the parameters with TLAPS.

1. [The system](#the-system)
2. [The modules](#the-modules)
3. [The runs](#the-runs)
4. [The proofs](#the-proofs)
5. [Where code and documentation disagree](#where-code-and-documentation-disagree)
6. [What is not modelled](#what-is-not-modelled)
7. [Plan](#plan)

## The system

Everything is a library.  Data flows from an `io.Reader` or a byte slice,
through a buffer with a selection `[start, pos)` the lexer moves, into a lexer
that returns one token per `Next`, and for CSS, JSON and JavaScript on into a
parser.  There are no threads of the library's own; the only shared state that
several goroutines may touch is the backend behind the clones of a
`BinaryReader`.

| Part | State it keeps | Operations | Makes it correct |
|---|---|---|---|
| `buffer/StreamLexer` | current buffer, pool of retired buffers as a linked list in a slice, `start`, `pos`, pending free count, error | `Peek`, `Move`, `Rewind`, `Skip`, `Shift`, `ShiftLen`, `Free`, `Err` | the memory is invisible: it is a cursor over the stream; a token keeps its bytes until it is freed |
| `buffer/Lexer`, `Input` | a slice with a NUL after its end, `start`, `pos`, the byte the NUL replaced | as above, `Restore`, `Reset` | a cursor; the slice given by the caller is as it was after `Restore` |
| `buffer/Reader`, `Writer` | slice and position | `Read`, `Write`, `Reset` | what is written is kept, also in a new array |
| `json/Parser` | stack of states, one comma flag, error | `Next` | emits JSON's grammar units in order |
| `css/Lexer` | none but its position | `Next` | the longest token of the CSS syntax, at every place |
| `css/Parser` | stack of state functions, nesting level, the tokens of the current unit | `Next`, `Values`, `HasParseError` | begin and end units balance; every byte is in a unit |
| `html/Lexer`, `xml/Lexer` | raw tag, in-tag flag, template delimiters, attribute slices | `Next`, `Text`, `AttrVal`, `HasTemplate` | raw text ends at its own end tag, a tag and an attribute where the standard ends them |
| `js/Lexer` | brace level, levels at which a template string resumes, line-terminator flags | `Next`, `RegExp` | the longest token of the lexical grammar; `}` ends the template it belongs to |
| `js/Scope` | declared and undeclared variables per scope, links to parents, use counts | `Declare`, `Use`, `HoistUndeclared`, `UndeclareScope` | a name resolves to the declaration ECMAScript says |
| `js/Parser` | lexer, scope, flags for `in`, `yield`, `await`, recursion depth | `Parse` | accepts programs; a tree is one of the grammar and has all that was read |
| `js/AST` | the tree | `JS`, `String`, `JSON`, `Walk` | what `JS` writes is read as the same tree |
| `BinaryReader` | a backend shared by all clones; per clone position and first error | `Read`, `ReadAt`, `ReadBytes`, `ReadByte`, `ReadUintN`, `Seek`, `Clone`, `Close` | clones are independent cursors; a short answer comes with an error |
| `BinaryWriter`, codecs | a growing slice | `WriteUintN`, `WriteIntN`, and the readers | what is written is read back |
| `BitmapReader`, `BitmapWriter` | slice and bit position | `Read`, `Write` | what is written is read back |
| `strconv` | none | `ParseInt`, `ParseFloat`, `AppendInt`, `AppendPrice`, ... | inverse functions, no overflow unnoticed |
| `common.go`, `util.go`, `position.go`, `error.go` | none | `Number`, `Dimension`, `DataURI`, `EncodeURL`, entity replacement, line and column | a replacement in place keeps the meaning of the text, coding is read back |
| `css/hash.go`, `html/hash.go`, generated tables | none | look-up | |

What is hard about this code:

* **Aliasing.**  Tokens are slices of the lexer's buffer.  `StreamLexer` hands a
  buffer out again once every token in it has been freed, and finds out with a
  byte account spread over the pool.  `Input` writes a NUL over the byte after the
  slice it is given, which may belong to another slice.
* **Look-ahead that changes state.**  A `Peek` may switch buffers under the
  selection; a parser changes its flags before it knows the token to be valid,
  and may be called again after an error.  The JavaScript parser reads a parenthesis as
  an expression or as parameters, and decides when it has reached the arrow.
* **Chunks and failures.**  A reader returns any number of bytes, also together
  with an error, also none.
* **Concurrency.**  Two goroutines with a clone of a `BinaryReader` each share one
  `io.ReadSeeker`: seeking and reading are two steps, made one by a mutex.
* **Look-ahead that depends on what stands around it.**  A `/` divides or begins a
  regular expression, a `}` ends a block or goes back to a template, `<` in raw text
  ends it or does not, and flags carry this knowledge from one call to another.
* **Long legal sequences.**  Stacks (JSON containers, CSS blocks, JavaScript
  scopes and templates) that one misplaced token could unbalance much later.
* **Boundaries.**  The NUL byte that stands for the end, bit positions rounded to
  bytes, the sign of an integer of a size the language does not have.

`PROJECT.json` lists every part under `components` and the hazards with the
line where each bites under `hazards`.

## The modules

| Module | Models | Compared with |
|---|---|---|
| `StreamLexer`, `StreamLexer_proofs` | `buffer/streamlexer.go` | `StreamCursor`, an abstract specification |
| `Slices`, `Runes`, `Input`, `Writer`, `Buffers`, `Buffers_proofs` | `input.go`, `buffer/lexer.go`, `buffer/writer.go`, `buffer/buffer.go` | what each array and slice should say |
| `JSONParser`, `JSONParser_proofs` | `json/parse.go` | `JSONEvents`, an abstract specification |
| `BinaryReader`, `Binary_proofs` | `binary.go`, `binary_unix.go`: readers and backends | `BinaryCursors`, an abstract specification |
| `Bitmap`, `Binary_proofs` | `binary.go`: `BitmapReader`, `BitmapWriter` | what has been written |
| `BinaryCodec` | `binary.go`: integers of `BinaryWriter` and `BinaryReader` | what has been written |
| `LexerInput`, `Lexers`, `MCLexers`, `Lexers_proofs` | the source of a lexer, the client of all four, the sources it is given by TLC | `Tokenizer`, an abstract specification |
| `HTMLLexer`, `HTMLLexer_proofs` | `html/lex.go` | `HTMLReference`, the states of the WHATWG tokenizer |
| `XMLLexer` | `xml/lex.go` | `XMLGrammar`, productions of XML 1.0 |
| `CSSLexer` | `css/lex.go` | `CSSRailroad`, the diagrams of CSS Syntax |
| `JSLexer`, `JSBrackets` | `js/lex.go` | `JSGrammar`, the lexical grammar of ECMAScript; the brackets themselves |
| `Railroad` | | regular expressions, for the three grammars above |
| `CSSParser`, `CSSParser_proofs` | `css/parse.go` | the brackets open in the source |
| `JSScope`, `JSScope_proofs` | `js/ast.go`: `Scope`, and where `js/parse.go` calls it | `Binding`, name resolution by ECMAScript's rules |
| `JSParser`, `JSPrinter`, `MCJSParser` | `js/parse.go`, and the `JS` methods of `js/ast.go` | `JSSentences`, grammars that derive programs, and `JSSyntax`, what a tree may look like |
| `Position` | `position.go` | the number of line ends before the offset |
| `Strconv` | `strconv/int.go`, `strconv/number.go` | the value of the digits |
| `Common` | `common.go`, `util.go` | decoding of what was encoded, regular expressions by their offsets |
| `MCFunctions` | the client of `Bitmap`, `BinaryCodec` and the three above | |

In the models of buffers and readers a byte of input is identified with its offset, so that "the
right byte" is "the right offset", and a value the client receives is kept in a
history variable that no guard reads.

### StreamLexer

`z` is the struct.  `heap` holds every buffer ever allocated, by identity, so that
two slices of one array are seen as such.  The pool's indexes keep the code's
"plus one" convention, in which 0 is nil.  `read` is the operator `AfterRead`,
the set of the states it may end in: `PoolFree` (the loop of
`bufferPool.free`, a recursive function, `PoolTurns`, of one `PoolTurn` each), `PoolSwap`
(`bufferPool.swap`), the copy of the unfinished
token, and one outcome for each way the reader may deliver.  Its callers `Peek` and
`Shift` are actions that use it, so a read is never a step of its own.  The
client is as a lexer written on this buffer: it peeks at what it moves over, or
it is `blind`, moves over bytes it knows to exist and lets `Shift` read them; it
frees no more than it has moved past, and skips only bytes that it has peeked at (the code
of `Skip`, streamlexer.go:203, has no such condition).  `PeekRune` is several calls of
`Peek`, `Lexeme` changes nothing.

`StreamCursor` is the promise: a selection `[lo, hi)` over one stream,
`Peek` returns the byte there or 0, `Shift` returns exactly the selected bytes, and
`io.EOF` is not reported (`ended`) before all bytes are in memory.
The refinement maps `lo` to `base + z.start`, where `base` is the stream offset of
the buffer's first byte.

### Slices, Runes, Input, Writer, Buffers

`mem` has the arrays, a slice is a piece of one with its capacity, and `append` writes
in place where there is room, as in Go.  `Writer` and `Input` are the two types over
them; `buffer/Lexer` is the same type as `Input` but for `PeekRune`, and `Runes` has
both ways to find a character's length, compared in `functions` over all texts of up to four bytes,
NUL among them: they agree but for a NUL inside the text (`SameRunes`).  `Buffers` is a
program with a `Writer`, two `Inputs` and a slice it keeps, in any order of their
operations.  History: `given` is what the owners of the arrays wrote, `texts` what each `Input`
must read, `written` what the `Writer` was given.

The program keeps three rules, which nothing in the code enforces.  It makes no
`Input` of a slice whose next byte is in use by another slice, and neither uses nor
writes that byte before `Restore`; it does not append to what `Writer.Bytes` answered (`own`
of the token), not even after the `Writer` has moved to another array; and
it uses nothing of an array after `Reset`.  Without the first, what follows a slice
reads as NUL, or a `Writer` that grows meanwhile copies the NUL for good; two `Inputs`
that end at one byte must be restored last first, or the NUL stays.  Without the second, an
`Input` of an earlier answer of the `Writer`, which is longer, reads what was appended to a
shorter one.

### JSONParser

One action for each unit `Next` returns and one for each of its errors; `Look` is the
common opening that takes a comma.  The input is chosen as it is read, one
lexical unit at a time (`next`), so every document and every malformed one is
covered.  After an error the parser may be called again, as in the code.

`JSONEvents` is JSON's grammar as a state machine over open containers.  The parser
implements it with one leniency (`Lenient`): a container may take a key's place.

### BinaryReader

`f` is the backend behind the interface `IBinaryReader`: its kind, its file
position, whether it is closed, and the seeker's mutex.  Calls on a slice, a
map, an `io.ReaderAt` or a plain `io.Reader` are one step (`Ask`): for the first three
the backend has no state a call changes, and a plain `io.Reader` is not safe for
several goroutines.  Calls on an `io.ReadSeeker` are modelled step by step, `Enter`,
`Lock`, `SeekFile` or `SeekFails`, `ReadChunk` per turn of the loop, `Return`, so that the
clones interleave at every point.  The file answers in any chunks
(`Outcomes`), may fail (`MayFail`) and may be closed by any clone at any moment between
its own calls (`MayClose`).  `ReadUint16` stands for all wider words, which differ only in
length.

`BinaryCursors` is the promise: each clone a cursor of its own, each call at one
moment, short answers with an error, the first error kept.  The refinement is the
identity on `pos`, `err` and `out`: the mutex, the file position and the half-read
calls are internal.

### Bitmap, BinaryCodec

`Bitmap` represents a buffer by its length and the set of indexes of its ones;
`BinaryCodec` by the sequence of its bytes.  `Word`, `Digits`, `Encoded`, `Decoded`,
`Converted` are Go's conversions and `encoding/binary`'s orders; the width is
kept with `% Base^size`.

### JSScope

A JavaScript program matters to `Scope` only by its identifiers and brackets, so the
model generates programs that consist of those: every action is one identifier, or
the parser entering, marking or leaving a scope, and does all that the parser does to
the scopes there.  `vars` and `scopes` are Go's objects by identity; the methods of
`Scope` are operators on the record of both (`Declare`, `Use`, `HoistUndeclared`,
`UndeclareScope`), which the actions apply.  `kind` and `part` of a scope are the
parser's place in it: the head of a function or `for` statement, or the body.  A
"paren" scope is one that `parseParenthesizedExpression` opens before it knows whether an
arrow will follow; `MaybeParameter` declares what may be a parameter, and `ExitGroup` undoes
it.  `EnterArrow` is the identifier that turns out to be the parameter of `a => a`.

The history variable `program` remembers where each identifier stands and which `Var`
the parser gave it.  `Binding` says from the places alone which declaration an
identifier refers to, by ECMAScript's rules and the two choices the code documents:
functions are function-scoped, and a name in a default value does not refer to a later
parameter.  `Resolved` compares the two.  It excepts three kinds of places at which
they differ, defined as `Late`, `Caught` and `Unmarked`; the section on disagreements
explains them.

### CSSParser

`state` is the stack of state functions by name, `level` the counter that all of
them share.  A step reads one token: `running` is the loop inside `Next` that waits for it,
and `gt` is the unit when `Next` returns.  Each function of the code is an operator on one
token, and `StateFunction` dispatches as `p.state[len(p.state)-1](p)` does.  Tokens that
no branch tells apart are one token.  Whitespace and comments inside a unit, and the
values collected for it, are left out.

The history is the source's own brackets: `open`, and whether one was closed that
was not open (`matched`); and what the client was told: `due` has the End unit of each block
that a unit began and that neither an End unit nor an error has taken off again (`Deliver`).  `lost` marks sources in which a bracket stands right after the
`*` of the hack `*color: red` or in place of the colon of a custom property: there
the code throws the bracket away.

### The lexers

A source is a sequence of symbols, and a symbol is a character, or a word where only the
whole word matters (`script`, `doctype`, `url`).  A token is the offsets it spans, its
type, and what else the client is told.  The state between calls is that of the
code's structs; the scanning loops inside a call are operators that answer the
first offset at which the loop stops, so that a call is one step.  `Railroad` says what a
grammar's regular expressions match, without any operator of the lexers.

`Tokenizer` is the promise of all four: tokens are consecutive and none is empty, only
blanks inside a tag are lost, the source is never passed, and the lexer ends only at the
end of the source, at a NUL or after an error it has reported (`Spec`); and it does end
(`Finishes`).  `Lexers` calls any of the four until it says `ErrorToken`, as a client
does; a client of `JSLexer` may also ask for the last token to be read again as a
regular expression.  `MCLexers` has the sources.

What the references leave open is excepted in them by name: HTML attribute names
that begin with `=` and templates inside unquoted values (`unclear` in
`HTMLReference`), and the symbols `XMLGrammar` says the package does not look at.

`JSBrackets` is the part of `JSLexer` that has state, as a machine of its own whose steps
the lexer's steps are built from, so that it can be proved about.  That every call of the lexer
does one of those steps to the brackets, or leaves them alone, is proved too
(`ImplementsBrackets`).

### JSParser, JSPrinter

A function of the parser is an operator from the state of the parser (the rest of the
program, the flags, the error) to the state in which it returns, with its tree.  The
functions are those of the code, one by one, with their order of tests; a failure is
kept, as in the code.  Those that call each other in a circle do so through `Call`.  All names differ: scopes are `JSScope`'s.  `JSPrinter` writes a tree
as tokens; the only spacing that matters is whether two operators would be read as
one, and `Glued` says what would be.

`MCJSParser` runs both on programs of two kinds.  Nine grammars of `JSSentences` derive
programs, leftmost symbol first, so that all of them up to a length are reached; each
is ECMAScript's for a part of the language, and the parser must accept all (`Accepts`).
And nine alphabets give all sequences of some tokens, extended as long as the parser may
still accept what begins so; these reach what no grammar says.  In both, `Kept` and
`RoundTrip` compare the program, the tree, what is written and the tree read from
that; `Grammatical` holds the tree against `Fits` of `JSSyntax`, which gives each
part the production it stands for and knows where `in`, `yield`, `await` and `return` may stand.

### Position, Strconv, Common

`Position` is the loop over the text, a step a character, with the cut of the line for the
message.  `Strconv` computes with integers of `Bits` bits: negations and conversions wrap (`Wrap`,
`Unsigned`), so that the smallest integer is its own opposite and has cases of its own in
`AppendInt` and `LenInt`, as in the code; what multiplies and adds asks before whether it fits (`Overflows`).  `Common` works on
byte codes in place, with the offsets the code computes.  `MCFunctions` calls each
function once, in the initial state, over all arguments in small ranges; a state of
`functions` is thus a call or a step of `Bitmap`, `BinaryCodec` or `Position`.

## The runs

A run that "passes" checks everything it names; a run that "finds a violation"
checks one sentence of the documentation that the code does not keep (see
below).

| Run | Bounds | Shows |
|---|---|---|
| `stream_lexer` | a stream of 4 bytes, buffers of 0, 1 or 2 bytes, one byte of look-ahead, reader failures; both kinds of client | tokens survive until freed (`Retained`), the pool's list and account are right (`WellFormed`), freed memory is reused (`FreedIsReused`), and it is a cursor whose `io.EOF` is not early (`IsCursor`) |
| `buffers` | a text of a character cut short, a `Writer` of 0 or 2 bytes, two `Inputs`, four arrays | all slices and `Inputs` keep what they said (`SlicesIntact`), an array differs from what its owner wrote in bytes lent until `Restore` only (`OnlyLentDiffers`), a growing `Writer` loses nothing (`WriterKeeps`) |
| `json_parser` | four containers deep | the bottom of the stack (`Bottom`), an error for each refusal (`ErrorHasCause`), a comma between any two elements and none in a pair or outside (`CommasSeparate`), the events of the grammar (`EmitsEvents`) |
| `binary_reader` | two clones, a file of a byte, all five backends, failures, `Close`, a wrong length told by the client | the file stands where the holder's next byte is (`Aligned`), clones are cursors of their own (`AreCursors`), every call returns (`CallsReturn`) |
| `lexers` | 41 vocabularies of 3 to 22 words, sources of 2 to 4 words after a beginning | tokens lose nothing (`Tokenizes`) and the lexer ends (`Finishes`); tags and raw text end where the standard says (`HTMLTagEnds`, `HTMLRawTextEnds`), templates are seen in attributes and raw text, and only templates (`HTMLHasTemplate`), well-formed XML is cut at the productions (`XMLWellFormedEnds`), CSS and JavaScript tokens are the longest of their grammars (`CSSMaximalMunch`, `JSLongestMatch`), braces go back to their template (`BraceOfTemplate`) |
| `css_parser` | brackets four deep; stylesheets and style attributes | the stack follows the source's braces through errors (`InStep`), the shared level is settled between units (`Settled`), a client that goes on over errors to the end has been given the End unit of every block that no error dropped (`AllEnded`), and that point comes (`Drains`) |
| `js_scope` | four identifiers, two names; scopes and different names together four, so three scopes with one name, two with two; names are symmetric | names are resolved right and each scope knows the names it may not give away (`Resolved`), uses are counted (`UsesCounted`), and look-ups need no links, and each variable has one declaring scope (`WellFormed`) |
| `js_parser` | derived programs of 7 to 31 tokens by grammar, sequences of 5 to 7 tokens by alphabet (`MCMaxDerived`, `MCMaxTokens`) | programs are accepted (`Accepts`), the tree has all that was read (`Kept`), writing and reading it gives it again (`RoundTrip`), and it is one of the grammar (`Grammatical`) |
| `functions` | ten bits in bytes of eight; two fields, bytes of four values, words of 1, 2 and 3 bytes; integers of eight bits; texts, URLs, entities and numbers of a few bytes | bits and fields are read back (`GivesBack`, `ReadsBack`), lines, columns and cuts are right (`PlacesRight`), numbers are read and written within their width, and `Number` is the longest number (`NumbersRight`), text replaced in place says the same (`TextReplaced`), URLs and data URIs are read back (`URLsReadBack`) |
| `binary_no_panic`, `js_scope_same_variable`, `js_lexer_past_end` | | find violations, see below |

Why the bounds are enough.  Four stream bytes and buffers that start at 0 to 2
make the lexer switch buffers up to four times, with the pool at three blocks:
blocks of length 0, reuse in place, reuse of an inactive block in the middle of
the list and a token split over two reads all happen (each has a mutant that only
such a case kills).  The JSON parser looks only at the top of its stack and its
one flag, and a close restores the state below; depth 4 has every pair of
containers inside every pair.  Two clones are all that can compete
for one mutex with different offsets, and a read of two bytes of a file of one meets a full
and an empty answer; the theorem below removes both bounds.
Ten bits cross a byte boundary with the early rounding on both sides of it.
Three scopes within the global one are a block in a block in a function, which is as
far as a `var` looks in one step, and four identifiers are a use before, in and after a
declaration.  An `Input` and a `Writer` over one array, two `Inputs` that end at
one byte, and a `Writer` that leaves an array another still reads need two `Inputs`,
and arrays for what they share.  A lexer's loops look at one or two symbols beyond
the one they stand at, so three words after a beginning that brings the lexer into
the loop have every pair, with what ends it.  Nothing in the JavaScript parser
looks at more than what precedes an expression, its precedence and the flags, which each
grammar nests in each other once.  The CSS functions look at the top of the stack and at whether the level is
zero, so that four brackets have every pair of contexts inside every pair.
Base 4 keeps a sign bit and a low part in each byte; a word of three bytes and its
neighbours of other sizes cover the orders.

**Fairness.**  `CSSParser` and `MCLexers` assume that a client goes on calling `Next` (`WF` of the
calls): that of the lexers, as its loop does until it is told to stop, and that of `CSSParser` over
errors until the end, as css/parse_test.go:131-138 does; the loop of css/README.md:109 stops at the
first error and is promised nothing after it.  `Drains` speaks only of sources
that have ended, and `Finishes` comes by this alone.  `BinaryReader` needs more, for `CallsReturn`.
A goroutine that holds the mutex is never blocked by this code, so its next
step is weakly fair, provided that the file answers a `Seek` or `Read` at all.  A
goroutine that waits at `Lock` competes with others that lock and unlock without end:
`sync.Mutex` hands the lock to a waiter that has waited too long (its starvation
mode), which is strong fairness of `Lock`.  Nothing is assumed of the clients.

`CHECK_DEADLOCK FALSE` stands only in `functions`, `js_scope` and `js_parser`, and in
`js_lexer_past_end`, where the program panics: there the model
stops when everything has been written and read, when the program is as long as
it may get or refused, and when nothing is left to derive.  Every other model
can always take a step.

## The proofs

| Theorem | For every | Says |
|---|---|---|
| `StreamLexer_proofs!Invariant`, `PoolInOrder` | stream length, least size of a buffer, look-ahead, failures, client | the pool's list is one list without cycles, its account balances (`WellFormed`) |
| `StreamLexer_proofs!TokensRetained` | the same | a token keeps its bytes until it is freed (`Retained`) |
| `StreamLexer_proofs!AllocatesLast` | the same | a read allocates only when all there is, is too small (`FreedIsReused`) |
| `StreamLexer_proofs!ImplementsCursor` | the same | the lexer implements `StreamCursor` (`IsCursor`) |
| `Buffers_proofs!Invariant`, `SlicesStayIntact` | number of `Inputs` and of arrays, texts, capacities | an `Input` reads its text and the NUL, a slice keeps what it said (`SlicesIntact`) |
| `Buffers_proofs!OthersUnchanged`, `WriterKeepsAll` | the same | only what is lent differs from what was written, and the `Writer` loses nothing (`OnlyLentDiffers`, `WriterKeeps`) |
| `JSONParser_proofs!TypeCorrect`, `BottomStays` | depth | the stack never loses its bottom, errors included |
| `JSONParser_proofs!ErrorsExplained` | depth | the parser refuses only with a reason (`ErrorHasCause`) |
| `JSONParser_proofs!CommasRight` (from `ElementsSeparated`, `CommasPlaced`) | depth | two elements have a comma between them, and there is none between a key and its value or outside of all containers (`CommasSeparate`); one before the first or after the last element is not excluded |
| `JSONParser_proofs!ImplementsEvents` | depth | the parser implements `JSONEvents` |
| `Binary_proofs!TypeCorrect`, `MutexAligned` | set of clones, file, lengths, offsets, backends | one holder, and the file stands where the holder's next byte is |
| `Binary_proofs!ImplementsCursors` | the same | the clones implement `BinaryCursors` |
| `Binary_proofs!NeverOutside`, `RoundTrip` | byte size of two bits or more, number of bits | the writer stays in its slice, the reader gives everything back |
| `JSScope_proofs!AlwaysInOrder`, `ListsInOrder` | set of names, sizes, program of fewer than `UsesMod` identifiers | an open scope lists no merged variable, and a variable is declared once (`WellFormed`) |
| `JSScope_proofs!UsesAreCounted` | the same | `Var.Uses` counts the identifiers that lead to the variable (`UsesCounted`) |
| `CSSParser_proofs!TypeCorrect`, `StaysInStep` | depth | the stack never loses its bottom, and the parser has as many brackets open as the source |
| `CSSParser_proofs!StaysSettled`, `EndsAll` | depth | the level is 0 after a unit; at the end each block begun has been given its End unit, in the order of nesting, or the error that dropped it (`AllEnded`) |
| `Lexers_proofs!LexersTokenize` | language, source of any symbols and length, delimiters of templates, client that has tokens read again; `Complete` sources of js | the lexer implements `Tokenizer`, with all its scanning loops (`Tokenizes`) |
| `Lexers_proofs!LexersCanContinue` | the same | no call leaves the Input beyond its terminator, nor does one that reports an error (`CanContinue`) |
| `Lexers_proofs!BracketsTypeCorrect`, `BracketsLevelsNested`, `BracketsBraceOfTemplate` | sequence of tokens | while brackets are balanced, the level counts the open ones and the levels kept are the places of the `${` among them |
| `Lexers_proofs!ImplementsBrackets` | source, and client that has tokens read again | the brackets of `JSLexer` are a `JSBrackets` |
| `Lexers_proofs!LexerBraceOfTemplate` | the same | while brackets are balanced, a `}` goes back to a template exactly if the innermost open bracket is a template's `${` (`BraceOfTemplate`) |
| `HTMLLexer_proofs!LexersEndRawText` | source, delimiters of templates | raw text of html ends where the standard's states end it (`HTMLRawTextEnds`) |
| `HTMLLexer_proofs!LexersEndTags` | the same, with `OpensApart` | tags of html end, and are void, where and when the standard says (`HTMLTagEnds`) |
| `HTMLLexer_proofs!LexersHaveTemplate` | the same, with `OpensPlainly` | what is said to hold a template does, and the other way round for attributes that are not unquoted and for raw text where it is `Searched` (`HTMLHasTemplate`) |

*StreamLexer.*  None of the properties is inductive: that a token keeps its bytes depends on
when its block leaves the list, that on the account, and the account on the order of the
list, which the code keeps in two ends and a link per block.  `Inv` (`Good`, of any lexer,
so that it can be said of one in the middle of a read) therefore names what the
code never writes down: a sequence `c` of slots that is the list from its tail, and
the stream offsets `b` at which its blocks begin.  The blocks' buffers hold the bytes of the
stream from there and fill it from what has been freed up to the current buffer
(`Begins`, `Stored`), and each byte that the client holds lies in the block of its offset
(`Located`).  A read is then four lemmas: `free` drops a prefix of `c`, `swap` appends a slot
at its end, reuses one that is in no place of `c`, or keeps the buffer, the copy
moves what begins at `base + z.start`, and the reader fills the rest.  Facts about
all turns of a loop or all links of a chain are proved by looking at the least number for
which they would fail (`LeastNumber`), since induction theorems are out of the prover's reach.
`PoolChain` and `PoolBegins`, by which `WellFormed` states the list as the code has it, are
shown to be `c` and `b`.  `ImplementsCursor` needs of this only where the selected bytes are.

*Buffers.*  That a slice keeps what it said is a matter of who may write where, so `Inv` gives
every cell of memory its roles: lent to an `Input` for its NUL, read by an `Input`, within the
`Writer`'s bytes or the kept slice, or in the room into which one of these would grow.
`Exclusive` says which of them exclude each other; the rest of `Good` says of the memory, each
`Input`, the `Writer` and the slice what its cells hold (`Says`).  It is
stated of explicit arguments, because a call is several steps: an array is made, then copied,
then given its NUL, and each has its lemma (`GoodMade`, `GoodStored`, `GoodLent`, and so on).
The attempt found that one rule of the program was too weak: it may append to nothing that the
`Writer` gave, also when that is not the `Writer`'s array any more.

*JSONParser.*  `Bottom` is not inductive without the types, and the separation of
elements needs to know that `needComma` holds whenever the last unit was a
complete value of the current container and that after a key the top is
`ObjectValue`; `Inv` of the proof module says so, and every theorem follows from
it and one case per action.  `ImplementsEvents` then needs that pushing, popping and
changing the top commute with the map from states to frames (`FramesShape`,
`SameFrames`, `FillFrames`).

*BinaryReader.*  `Inv` is `TypeOK /\ Aligned /\ Progress`.  `Progress` says that only the
seeker has calls under way, that a call which has not yet sought holds no
bytes, and that bytes read lie in the file; without it `Aligned` is not enough
to show that a reply is a run of bytes of the file.  Each action is shown to
touch one clone's call (`OwnStep`) or none (`QuietCalls`), so that the other
clones' parts of the invariant are kept without looking inside.

*Bitmap.*  The invariant is that the buffer has exactly `wpos \div ByteBits + 1` bytes once
a bit has been written at all; the lemmas on division (`DivStep`, `DivMono`) carry it.

*JSScope.*  Neither property says enough of the state in the middle of a program.  `UsesCounted` speaks
of the end only; `Counted` says of every state that each chain of links ends (there is a
function `out` to the variable at its end, and a function `depth` bounded by the number of
merged variables), and that the uses of a variable without a link are the identifiers that `out`
takes to it, at least one.  That moving a variable up never lists it twice, nor leaves a
merged one in an open scope, needs `Listing`: a variable without a declaration is in one open
scope's undeclared list only (`UndOnce`), and one that a scope declares is undeclared in inner
scopes only (`UndInside`).  `Unlinked` holds of the open scopes and of no others, since a scope
keeps its list when it is left; so the invariant, `Inv`, is of the scopes around the
parser, which form a tree whose inner scopes have the greater numbers (`TreeOk`), and each
method of `Scope` has lemmas that say what it does to lists, links and counts.  The loops of
`HoistUndeclared` and `UndeclareScope` are recursive functions here; that they keep the
invariant is proved by looking at the first turn that would not.  The hypothesis of the
theorems, `MaxLength < UsesMod`, is that a program has fewer identifiers than `Var.Uses` can
count: it is a uint16 (js/ast.go:128), and with 65536 uses of one name the count is wrong.

*CSSParser.*  `InStep` counts, and counting is not inductive: when a `)` meets level 0,
the functions differ in whether they pop a block, count down or do nothing, and all
of them are right just because the source has no `(` open there.  So the invariant,
`Inv`, has `Nested`: the first brackets open in the source are the `{` of the parser's
blocks, and above them are as many as the level says.  Its other new part is `Calm`:
which functions run at level 0 only.  The ways in which a step may end (with a unit, a
token of a loop, a beginning, a push, the end of a block, and so on) have one lemma
each, `...Effect`; a lemma per function of the code then only says which of them it
uses.  `AllEnded` is about units, so `Inv` also has `Due`: what the client is due are the End units of
the blocks on the stack, one by one.  It is kept because each function begins a block with its
unit, ends the last one with a unit of its kind, drops it with an error, or leaves blocks alone (`Told`,
shown by `LoopsTold` and `StateFunctionTold`), and each of these does the same to `due` (`DueAfter`);
with the stack at its bottom at the end (`AtBottom`), nothing is due.

*Lexers.*  Whether a lexer loses, repeats or overruns a byte is decided inside its calls, by
some thirty scanning loops, so most of the proof is about these: whatever the source, a
loop that begins in it stops in it, terminator included, at an offset from where it
began (`From`).  A loop that looks at one offset after the other is a scan for the
first that stops it (`FirstInside`).  One that steps over escapes, quotes or templates is a
recursive function; that a function with such turns exists at all is proved by well-founded
recursion on the distance to the end (`Loop`, `OffsetLoop`), what its turns keep the
last one has (`LoopKeeps`), and that the code's function is this one, since two
functions with the same turns agree (looking at the least distance at which they would
not).  The code has no check against its end in most of these loops: they stop there because
the terminator is a NUL, which stops them (`Over`), and each `...Stops` lemma says why for one.
From these a lemma per function of the code says that what it answers is from its begin on, or
beyond it where the function has consumed something, and a lemma per branch of `Next`
that it does one step of `Tokenizer` and keeps `InSource`.  The inductive
invariant, `LexersInv`, is that nothing is read past the end (`pos + ahead`, where
`ahead` is what an error of js has consumed already), that the last token ends where the next
begins, and what the loops need of the source and the templates: no symbol is the
model's mark for what is beyond, and no delimiter has a NUL.

The proof found a way past the end that no run had met: `CanContinue` is not kept by an
unexpected `#`, `~=` or `?=` at the end of a source of js (see below).  `Complete` excludes
just the sources that end in one of these; it is a hypothesis of the two theorems, by
`Starts`, and a little too strong (`??=` ends in `?=` and is an operator).

*HTMLLexer.*  `TagFrom` and `RawState` take a source one character at a time, and the lexer a name,
a value, a template or a piece of raw text, over as many calls as a tag has attributes.
So the two are compared at the offsets where both come by.  For raw text these are the ends of the
turns of the code's loops: its outer loop stands for the state `data`, its inner one, with `inScript`, for
the other two, and a turn that skips characters skips none that could change
the state.  For a tag, `InTagRight` says that between two calls the rest of the tag, read from where the
lexer stands, ends as the tag read from its name does, and that the standard's state there is
`beforeName` or `name` (`Between`).  Each piece of an attribute then has a lemma on how `TagFrom`
goes through it, and the inductive invariant, `TagEndsInv`, is `InTagRight` and `HTMLTagEnds`.
That a template in raw text is noted (`HTMLRawNotes`) goes by the same turns: each of them notes a
template where it stands, and what it steps over are no characters at which the text is `Searched`, or
come after the comment that took it into the script's inner loop (`HTMLRawSees`).

`OpensPlainly` and `OpensApart` are hypotheses on the client's delimiters: none begins with a blank or
`=`, or, for tags, with `>` or `/`.  A delimiter that did would be the end of a name or of a value
to one of the two and a template to the other.  All that the package offers (`{{`, `<%`, `<?`)
begin with neither.  Raw text needs no such hypothesis.  What the properties except by name
(`unclear`, `AsTheCode`, unquoted values) the theorems except too.

The attempts found two faults of the model, which TLC had not met.  An error within `<svg>` in a tag left the
history of the tag's start at the tag before, so that the invariant did not hold of `<a><svg` and a NUL;
`Foreign` sets it now, and `MCLexers` has these sources.  And two guards of a `CASE` in `TagState` overlapped,
where TLA+ leaves open which is taken.

*JSBrackets.*  That the next `}` is told right is not inductive: after it the same must
hold of the brackets below.  `LevelsNested` is, and says for all of them that the kept levels
are the places in `open` at which a template's `${` stands, in order.  The lexer implements the
machine because each branch of `NextToken` names the step it does to the brackets, and
reading a token again as a regular expression does none (`CallIsStep`); what its scanning
loops return does not matter to that.

From the constants each proof assumes the `ASSUME` of its module and no more;
TLC evaluates those in every run.

Model-checked only: `CallsReturn`, `Drains` and `Finishes` (liveness under fairness
is out of the prover's reach); `Resolved`, whose reference, `Binding`, is recursive over the scopes
around and would have to be related to lists that forget the order of the program; that the
tokens of XML, CSS and JavaScript are those of the grammars (`XMLWellFormedEnds`, `CSSMaximalMunch`,
`JSLongestMatch`), since what a grammar's regular expression matches is a recursive operator;
the JavaScript parser, whose operators and
references are recursive, which the prover does not take; `ReadsBack` and the rest of `functions`,
which are folds over data.

## Where code and documentation disagree

| Run | Sentence | What the code does |
|---|---|---|
| `js_lexer_past_end` | an unexpected character is moved over, "allow to continue after error" (js/lex.go:224) | after `#` without an identifier, `~=` or `?=` the lexer has moved already: at the end of the source it moves over the terminator, and the next call reads beyond the buffer |
| `binary_no_panic` | a truncated read "must be treated as EOF and return 0, not panic" (binary_test.go:10-12) | `ReadByte` checks for nil, and three backends answer an empty slice that is not nil |
| `js_scope_same_variable` | "`function f(a=b){var b}` where the b's are different vars" (js/parse.go:941) | a rest parameter returns before the arguments are marked: in `function f(a=b,...c){var b}` the b's are one variable |

The exceptions of `JSScope` are these.  `Unmarked` is the rest parameter above.  `Late`:
a use in the body before its declaration there is looked up among the uses of the
head, as in `function f(a=b){b;var b}` or `for(x of b){b;let b}`, where the second
b should be the third and is the first.  `Caught`: a `var` out of a `catch` is listed as
used in the blocks between, so that in `catch(a){{var a;a}}` the last a is taken for
the `var`, where ECMAScript has the parameter.  A `let` in a scope that a `var` of the same
name declares in or leaves is not always refused; such programs are no JavaScript, and
`Conflict` leaves them out.

Further observations have no run of their own and can be read off the models, mostly as the
exceptions of their properties.

*Buffers.*  `StreamLexer.ShiftLen` should say "the number of bytes that have been shifted since
the previous call" (README.md:26), but `read` sets `start` to 0 and leaves `prevStart`, so it
answers a negative number after a buffer switch.  `Input.PeekRune(pos)` ignores `pos`
where it asks how many bytes are left (input.go:110-118).  A NUL inside the text ends a character
for `buffer/Lexer` and not for `Input`: of the bytes 0xC3 and NUL with more to come, input.go:113 answers
a character of two bytes and buffer/lexer.go:107 one of one; `SameRunes` says just that.  An `Input` made of a
`buffer.Reader` has all its bytes, also those read before.

*Binary.*  `SeekEnd` of `BinaryReader` subtracts the offset from the end, so that
`Seek(-1, 2)` goes one beyond it, although binary.go:316 says that it "complies with io.Seeker".
`Converted` of `BinaryCodec` loses the sign of an int24, although binary.go:440 says that
it is read "into an int32"; `ReadsBack` excepts negative ones.  `Bitmap`'s reader reports the
end before it has read the last bit of the last byte, although binary.go:571 says "reached
the buffer's end-of-file"; the writer appends a byte early to make up for it, which is what
`GivesBack` shows.

*JSON.*  The parser takes a container where a key is due, and a comma before the first
element or after the last, as in `{{}}`, `[,1]`, `[null,]` (which json/parse_test.go:37 expects) and `{"a":1,}`,
although README.md:49 says that it follows the specification: this is `Lenient` in
`JSONEvents` and the guard of `Look`.

*CSS.*  `InStep` and `AllEnded` of `CSSParser` except the sources that set `lost`: in `a{*}b{}`
and `a{--x}b{}` the first `}` ends nothing.  An error at a closing bracket in the prelude of a rule drops the
block around it (css/parse.go:271, 364, "TODO: buggy"), and no End unit comes for it: `@media x{a}` begins
an at-rule that no unit ends, and css/parse_test.go:93 expects one `}` less than there are `{`.  After an error in a declaration the parser should
pop tokens "till we reach ;, }, or EOF" (css/parse.go:482), but a `)` that was not opened
takes the level to -1, and in `a{b:c);d:e}f{g:h}` all is one error.  In the lexer a `--(` is
no function, `url(` after an escaped backslash is taken for `url(`, and a range of Unicode is not the longest one.

*HTML, XML.*  `<!-->` does not close an escaped script; any character may follow the name of
an end tag of raw text; templates delimited by `<%` are not recognised in raw text
(html/lex.go:234 goes before 290), and no template further on in an unquoted value (125-128); a NUL within
`<svg>` leaves `inTag` set.  In XML a `>` alone ends a processing instruction, and single quotes
in a document type are not seen.

*JavaScript lexer.*  `-->` after a line terminator and a comment is no HTML comment;
`0b12` is two numbers; where an error consumed nothing, the next token has the text left
over; the message on `#`, `~=` and `?=` takes the character after them (js/lex.go:222-224).

*JavaScript parser.*  It refuses `({a} = [b.c]) => d`, although js/parse.go:2232 says that
parsing as arguments cannot fail; `++a ** b`; a line terminator as the end of a statement
before `(` where the left side binds loosely (`a++`, `()=>{}`, `yield`); `for (async in b)`;
`if(a)b` and `do a` with a line terminator before `;else` and `;while` (js/parse.go:647-648);
`${yield}` in a template of a generator; `get` and `async` followed by a line terminator in a
class; `new async()`.  It accepts much that is no program, and was not meant as a validator:
`1 = 2`, `a?.b = 1`, array literals without commas, `break a b`, `({a=1})`, `(a,)`.  `Kept`
leaves out three kinds of sources (`Lenient`): before a property that is no method
`get`, `static`, `async` and `*` are dropped; a list of imports or exports needs no
commas; and for event handlers `while` is written as `for`.

*Functions.*  Position.go:11 names three kinds of line terminators and the code has five; the
excerpt shown does not stop at U+2028.  `AppendNumber` reserves too much for a group symbol of
several bytes (strconv/number.go:68).  Replacing an entity can make a new reference with what
follows (`&amp;&#108;t;`); hexadecimal references of more than 16 digits overflow
(common.go:289-297); a shorter text for every entity is what the client must give.
`DataURIEncodingTable` leaves `+`, which `DataURI` decodes to a space; `data:;charset=x,`
drops the parameter.  `TextReplaced` and `URLsReadBack` leave these out by their ranges
or by name.

## What is not modelled

* Generated perfect-hash tables and token-type names: look-up tables.
* The fuzz entry points under `tests/`: drivers without state.
* Opening files and memory maps (`NewBinaryReaderFile`, `NewBinaryReaderMmap`) and
  the kernel's page cache (`InPageCache`): the models start with an open backend.
  What a read of unmapped memory after `Close` does (binary_unix.go:59) is undefined by the program.
* Floats and decimals (`strconv.ParseFloat`, `AppendFloat`, `ParseDecimal`): rounding is all
  there is to them and out of reach of TLC's integers.  The bit position of `Bitmap` is a
  uint32 and wraps after half a gigabyte (binary.go:557), which is no small instance; the
  uses of a variable are modulo `UsesMod` in `JSScope` and never reach it there (js/ast.go:128).
* `buffer/reader.go`, which copies and counts a position; `Dimension`, `QuoteEntity`,
  `AppendEscape` and the comparisons of a byte at a time in `common.go` and `util.go`.
* The error that `DataURI` answers when its data is not base64 (common.go:181-185).
* In the lexers: letter case, the classes of Unicode letters, which keyword or operator
  a token is (js/tokentype.go, js/table.go), the trimmed texts of `Text()`.
* In `JSScope`: private names of classes, labels, and the flags `HasWith` and `VarDecls`, which no
  look-up reads; `Unscope`, which nothing calls.  In `CSSParser`: whitespace and values.
* In `JSParser`: comments, directives, the limits on nesting, the wording of errors; and regular
  expressions, for which it has a `/` or `/=` at the start of an expression read again
  (js/parse.go:1644-1651): no program of its runs has a `/`.  The lexer's side of it is `RegExp` of `JSLexer`.  Of
  `js/ast.go`: `String`, `JSON` and indentation, which are layout, and `Walk`, which keeps no state.

## Plan

1. `StreamLexer`, the buffer every streaming client trusts, with proofs.  *Done.*
2. `JSONParser` and `JSONEvents`, with proofs.  *Done.*
3. `BinaryReader`, `Bitmap`, `BinaryCodec`, with proofs.  *Done.*
4. `JSScope`.  *Done, with proofs of its lists and counts.*
5. `CSSParser`, with proofs.  *Done.*
6. `Buffers` (`Input`, `buffer/Lexer`, `Writer`), with proofs.  *Done.*
7. The four lexers, one client, one promise.  *Done, with proofs that all four implement
   `Tokenizer`, `JSLexer` `JSBrackets`, and that html's tags and raw text end by the standard.*
8. `Strconv`, `Position`, `Common`.  *Done.*
9. `JSParser` and `JSPrinter`.  *Done; recursive, so without proofs.*
10. Left: `Resolved`, proved; scopes and parser in one model, for sources whose
    declarations fail; directives, comments and the limits on nesting of the parser.
