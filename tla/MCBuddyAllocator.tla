-------------------------- MODULE MCBuddyAllocator --------------------------
EXTENDS BuddyAllocator

\* States past the first removal through an outdated link are not explored.
Clean == ~stale

=============================================================================
