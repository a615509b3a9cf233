----------------------------- MODULE MCTextual -----------------------------
EXTENDS Textual
CONSTANTS edit, bash
TheseKeys == {edit, bash}
TheseFiles == {edit}
=============================================================================
