---------------------------- MODULE MCLedgerPage ----------------------------
EXTENDS LedgerPage

MCFilters == {Items, Drafts}
=============================================================================
