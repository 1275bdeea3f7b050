---------------------------- MODULE MCRunLifecycle ----------------------------
EXTENDS RunLifecycle
CONSTANTS r1, r2, k1, k2, s1, s2
=============================================================================
