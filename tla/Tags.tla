-------------------------------- MODULE Tags --------------------------------
(***************************************************************************)
(* The tags of snippets (service/tag, SetTags of service/snippet), beside  *)
(* the snippets of Library, which are purged under them.                   *)
(*                                                                         *)
(* One user; names and colours are left out.  SetTags reads the snippet    *)
(* and the tags, then replaces the list in one transaction of the store    *)
(* that locks the row of the snippet; tags and snippets may go in between. *)
(* snippet_tags refers to both by foreign keys that cascade.               *)
(***************************************************************************)
EXTENDS Library

CONSTANTS Tag

VARIABLES
    tag,       \* where each tag is; ids are never used again
    tagsOf,    \* snippet_tags
    setting,   \* the SetTags each Proc is running
    wanted     \* history: the last list set successfully

tagVars == <<tag, tagsOf, setting, wanted>>
allVars == <<vars, tagVars>>

NotSetting == [snippet |-> None, tags |-> {}]

\* Every part of the state has its type.
TypesOK ==
    /\ TypeOK
    /\ tag \in [Tag -> {"new", "there", "gone"}]
    /\ tagsOf \in [Snippet -> SUBSET Tag]
    /\ setting \in [Proc -> [snippet : Snippet \cup {None}, tags : SUBSET Tag]]
    /\ wanted \in [Snippet -> SUBSET Tag]

TagsInit ==
    /\ tag = [t \in Tag |-> "new"]
    /\ tagsOf = [s \in Snippet |-> {}]
    /\ setting = [p \in Proc |-> NotSetting]
    /\ wanted = [s \in Snippet |-> {}]

Present == {t \in Tag : tag[t] = "there"}

-----------------------------------------------------------------------------
TagCreate(t) ==
    /\ tag[t] = "new"
    /\ tag' = [tag EXCEPT ![t] = "there"]
    /\ UNCHANGED <<vars, tagsOf, setting, wanted>>

\* Its rows of snippet_tags go with it.
TagDelete(t) ==
    /\ tag[t] = "there"
    /\ tag' = [tag EXCEPT ![t] = "gone"]
    /\ tagsOf' = [s \in Snippet |-> tagsOf[s] \ {t}]
    /\ UNCHANGED <<vars, setting, wanted>>

\* SetTags checks the snippet and, in validateOwnedTagIDs, every tag.
TagsRead(p, s, tags) ==
    /\ Request
    /\ setting[p] = NotSetting /\ Exists(s) /\ tags \subseteq Present
    /\ setting' = [setting EXCEPT ![p] = [snippet |-> s, tags |-> tags]]
    /\ UNCHANGED <<note, share, template, lineage, flight, faults, tag, tagsOf, wanted>>

\* Mutant: the list is added to what is there.
TagsWriteAdds(p) ==
    LET s == setting[p].snippet
        ok == Exists(s) /\ setting[p].tags \subseteq Present
    IN
    /\ setting[p] # NotSetting
    /\ tagsOf' = IF ok THEN [tagsOf EXCEPT ![s] = @ \cup setting[p].tags] ELSE tagsOf
    /\ wanted' = IF ok THEN [wanted EXCEPT ![s] = setting[p].tags] ELSE wanted
    /\ setting' = [setting EXCEPT ![p] = NotSetting]
    /\ UNCHANGED <<vars, tag>>

\* ClearTags and AddTagIDs: nothing is written if the snippet or one of the tags has
\* gone meanwhile.
TagsWrite(p) ==
    LET s == setting[p].snippet
        ok == Exists(s) /\ setting[p].tags \subseteq Present
    IN
    /\ setting[p] # NotSetting
    /\ tagsOf' = IF ok THEN [tagsOf EXCEPT ![s] = setting[p].tags] ELSE tagsOf
    /\ wanted' = IF ok THEN [wanted EXCEPT ![s] = setting[p].tags] ELSE wanted
    /\ setting' = [setting EXCEPT ![p] = NotSetting]
    /\ UNCHANGED <<vars, tag>>

\* A step of the library; a purged snippet takes its rows of snippet_tags along.
LibraryStep ==
    /\ Next
    /\ tagsOf' = [s \in Snippet |-> IF note'[s] = "gone" THEN {} ELSE tagsOf[s]]
    /\ UNCHANGED <<tag, setting, wanted>>

TagNext ==
    \/ \E t \in Tag : TagCreate(t) \/ TagDelete(t)
    \/ \E p \in Proc :
        \/ TagsWrite(p)
        \/ \E s \in Snippet, tags \in SUBSET Tag : TagsRead(p, s, tags)

AllInit == Init /\ TagsInit
AllNext == LibraryStep \/ TagNext
AllSpec == AllInit /\ [][AllNext]_allVars

-----------------------------------------------------------------------------
\* "SetTags replaces all tag associations": a snippet carries exactly the last list
\* that was set with success, less the tags deleted since, and a purged one none;
\* two lists set at the same time never mix, and a list that was checked before one
\* of its tags was deleted leaves no row to it.
TagsAsSet ==
    \A s \in Snippet : tagsOf[s] = IF note[s] = "gone" THEN {} ELSE wanted[s] \cap Present

=============================================================================
