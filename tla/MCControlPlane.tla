---------------------------- MODULE MCControlPlane ----------------------------
EXTENDS ControlPlane, TLC

\* The proxies are interchangeable: Init and Next name none of them.
ProxySymmetry == Permutations(Proxies)

===============================================================================
