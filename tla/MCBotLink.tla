----------------------------- MODULE MCBotLink -----------------------------
(* Symmetry and inputs for the run of BotLink.                             *)
EXTENDS BotLink, TLC

Symmetric == Permutations(Requests)

Body(name, notify, delete, crawl) ==
    [name |-> name, notify |-> notify, delete |-> delete, crawl |-> crawl]

\* Names with the minutes that a creation needs; then minutes that lie below and
\* above those of the rows, one alone and both, with and without crawl.
MCBodies == {Body(n, 1, 3, "on") : n \in ZoneNames} \cup
            {Body(None, 1, 2, "on"), Body(None, 2, 0, "on"), Body(None, 3, 0, "on"),
             Body(None, 0, 1, "on"), Body(None, 0, 2, "on"), Body(None, 0, 0, "on"),
             Body(None, 3, 0, "left out"), Body(None, 0, 0, "off")}

\* A crawled zone, one without minutes, and one whose minutes nothing compared.
MCRows == {x \in Zone : <<x.crawl, x.notify, x.delete>> \in
               {<<TRUE, 1, 3>>, <<FALSE, 0, 0>>, <<FALSE, 3, 2>>}}
=============================================================================
