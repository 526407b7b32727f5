---------------------------- MODULE Instructions ----------------------------
(***************************************************************************)
(* agents/scoped_instructions.py: the instructions of one agent, merged    *)
(* from the AGENTS.md of the root, its domain and its own directory.       *)
(*                                                                         *)
(* A text is a sequence of lines; blank lines are left out.  A line is     *)
(* text, told apart by where it was written, or a "##" line: an ordinary   *)
(* heading, SCOPED: <agent>, OVERRIDES or EXTENDS.                         *)
(***************************************************************************)
EXTENDS Naturals, SequencesExt, FiniteSets, Listing

CONSTANTS
  Titles,   \* heading titles
  MaxLines  \* one per layer of resolve_instructions; bound: lines of its file

ASSUME InstructionsAssumption == MaxLines \in Seq(Nat)

Text(where) == [kind |-> "text", of |-> where]
Heading(title) == [kind |-> "heading", of |-> title]
Scoped(agent) == [kind |-> "scoped", of |-> agent]
Overrides == [kind |-> "overrides", of |-> "none"]
Extends == [kind |-> "extends", of |-> "none"]
IsText(line) == line.kind = "text"

(* What stands before the first heading, and the "## " written for it.     *)
Lead == [kind |-> "lead", of |-> "none"]
Bare == Text(<<0, 0>>)

Marks == {Heading(t) : t \in Titles} \cup {Scoped("this"), Scoped("other"), Overrides, Extends}
Lines == Marks \cup {Text(w) : w \in Nat \X Nat}

VARIABLES
  merged,  \* the merged text of the layers so far
  layer,   \* how many layers have been read
  latest   \* history: the file read last, empty where it is missing

instrVars == <<merged, layer, latest>>

InstrInit == merged = <<>> /\ layer = 0 /\ latest = <<>>

-----------------------------------------------------------------------------
(* _filter_scoped_blocks: a block reaches to the next "##" line.           *)

InBlockOf(text, i, agent) ==
  \E j \in 1 .. i - 1 :
    text[j] = Scoped(agent) /\ \A k \in j + 1 .. i : IsText(text[k])

(* Mutant: only the markers are taken out.                                 *)
FilteredMarkers(text) == Kept(text, {i \in DOMAIN text : text[i].kind # "scoped"})

Filtered(text) ==
  Kept(text, {i \in DOMAIN text : text[i].kind # "scoped" /\ ~InBlockOf(text, i, "other")})

(* _parse_sections: a title that occurs twice keeps its first place and    *)
(* its last body.                                                          *)
LinesOf(text, heading) == {i \in DOMAIN text : text[i] = heading}
LastOf(text, heading) ==
  IF heading = Lead THEN 0 ELSE CHOOSE i \in LinesOf(text, heading) :
                                 \A j \in LinesOf(text, heading) : j <= i

Body(text, heading) ==
  LET start == LastOf(text, heading)
      ends == {i \in DOMAIN text : i > start /\ ~IsText(text[i])}
      end == IF ends = {} THEN Len(text) + 1 ELSE CHOOSE i \in ends : \A j \in ends : i <= j
  IN  SubSeq(text, start + 1, end - 1)

Marked(text) == {i \in DOMAIN text : ~IsText(text[i])}
Order(text) == Unique(<<Lead>> \o Kept(text, Marked(text)))

(* _apply_overrides                                                        *)
Marker(text) ==
  CHOOSE i \in LinesOf(text, Overrides) : \A j \in LinesOf(text, Overrides) : i <= j
Before(text) == SubSeq(text, 1, Marker(text) - 1)
After(text) == SubSeq(text, Marker(text) + 1, Len(text))

Section(heading, body) == <<IF heading = Lead THEN Bare ELSE heading>> \o body

(* Mutant: the override is added to the parent's section.                  *)
ApplyAdding(parent, child) ==
  LET over == After(child)
      order == Unique(Order(parent) \o Order(over))
      part(text, h) == IF h = Lead \/ LinesOf(text, h) # {} THEN Body(text, h) ELSE <<>>
      section(h) == Section(h, part(parent, h) \o part(over, h))
  IN  Before(child) \o FlattenSeq([n \in DOMAIN order |-> section(order[n])])

(* Mutant: only the override's sections are written.                       *)
ApplyAlone(parent, child) ==
  LET over == After(child)
      order == Order(over)
      section(h) == Section(h, Body(over, h))
  IN  Before(child) \o FlattenSeq([n \in DOMAIN order |-> section(order[n])])

ApplyOverrides(parent, child) ==
  LET over == After(child)
      replaced == Range(Order(over))
      order == Unique(Order(parent) \o Order(over))
      section(h) == Section(h, IF h \in replaced THEN Body(over, h) ELSE Body(parent, h))
  IN  Before(child) \o FlattenSeq([n \in DOMAIN order |-> section(order[n])])

(* _merge_layers, one step: the first layer is taken as it is.             *)
MergeLayer(parent, child) ==
  IF layer = 0 THEN child
  ELSE IF Overrides \in Range(child) THEN ApplyOverrides(parent, child)
  ELSE parent \o Kept(child, {i \in DOMAIN child : child[i] # Extends})

(* _read_relevant and the merge; a file that is missing or unreadable      *)
(* counts as empty.                                                        *)
ReadLayer ==
  /\ layer < Len(MaxLines)
  /\ \E shape \in BoundedSeq(Marks \cup {Bare}, MaxLines[layer + 1]) :
       latest' = [i \in DOMAIN shape |->
         IF IsText(shape[i]) THEN Text(<<layer + 1, i>>) ELSE shape[i]]
  /\ merged' = MergeLayer(merged, Filtered(latest'))
  /\ layer' = layer + 1

InstrSpec == InstrInit /\ [][ReadLayer]_instrVars

-----------------------------------------------------------------------------
Titled(text) == {line \in Range(text) : line.kind = "heading"}

(* The heading a line of text stands under, Lead if none.                  *)
Under(text, i) ==
  LET above == {j \in Marked(text) : j <= i}
  IN  IF above = {} THEN Lead ELSE text[CHOOSE j \in above : \A k \in above : k <= j]

(* Nothing of another agent's SCOPED block reaches the instructions, and   *)
(* of the file read last no line gets lost that is this agent's and is     *)
(* not part of an override that a later section repeats.                   *)
ScopeIsKept ==
  \A i \in DOMAIN latest : IsText(latest[i]) =>
    /\ InBlockOf(latest, i, "other") => latest[i] \notin Range(merged)
    /\ (~InBlockOf(latest, i, "other") /\ Overrides \notin Range(latest))
         => latest[i] \in Range(merged)

(* A section the child overrides has the child's text and none of the      *)
(* parent's.                                                               *)
OverrideReplaces ==
  [][LET child == Filtered(latest')
     IN  (layer > 0 /\ Overrides \in Range(child)) =>
           \A h \in Titled(After(child)) :
             /\ h \in Range(merged')
             /\ \A i \in DOMAIN merged :
                  (IsText(merged[i]) /\ merged[i] # Bare /\ Under(merged, i) = h)
                    => merged[i] \notin Range(merged')
             /\ h \notin Range(Before(child)) => Body(merged', h) = Body(After(child), h)]_instrVars

(* A section the child does not override keeps its text, and sections keep *)
(* their order: nothing is lost but earlier sections of a repeated title.  *)
UntouchedStays ==
  [][LET child == Filtered(latest')
     IN  (layer > 0 /\ Overrides \in Range(child)) =>
           \A g, h \in Titled(merged) \ Range(child) :
             /\ {g, h} \subseteq Range(merged') /\ Body(merged', h) = Body(merged, h)
             /\ (\E i, j \in DOMAIN Order(merged) : i < j /\ Order(merged)[i] = g /\ Order(merged)[j] = h)
                  => LastOf(merged', g) < LastOf(merged', h)]_instrVars

(* A layer changes what it names and nothing else.                         *)
LayersAreExact == []ScopeIsKept /\ OverrideReplaces /\ UntouchedStays
=============================================================================
