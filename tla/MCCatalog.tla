------------------------------ MODULE MCCatalog ------------------------------
EXTENDS Catalog

MCRawLimits ==
  {[kind |-> "unset", number |-> 0], [kind |-> "digits", number |-> 1],
   [kind |-> "digits", number |-> 101]}
=============================================================================
