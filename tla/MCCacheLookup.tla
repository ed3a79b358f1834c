--------------------------- MODULE MCCacheLookup ---------------------------
\* Requests without audience and for one API with its own scopes.
EXTENDS CacheLookup

MCAuthScopes == [form |-> "object", of |-> [api |-> {"read"}]]

MCKeys == RequestKeys \cup {IdKey}
=============================================================================
