---------------------------- MODULE MCParticles ----------------------------
EXTENDS Particles
=============================================================================
